---- MODULE Spec2Model ----
(***************************************************************************)
(* Model of the unit-test package generator (generate_test_units.py) and   *)
(* of the marker splice of the launcher (unitTestsLauncher.py).            *)
(*                                                                         *)
(* Text is a sequence of chunks (strings); the text it stands for is the   *)
(* concatenation of its chunks.  An f-string becomes the sequence of its   *)
(* literal pieces and interpolated values, "\n".join(lines) puts a "\n"    *)
(* chunk between the lines.  A file name is a text too (stem, suffix), a   *)
(* path is a sequence of names.                                            *)
(***************************************************************************)
EXTENDS Integers, Sequences, FiniteSets, TLC

\* ws: the choice of the scanned tree; disk: the packages under out_root; pc, ci, ki, hi,
\* test_exists: where main is and its locals; out: what it printed;
\* lexit: how the launcher's last splice ended; lrun: where the launcher is
\* in run_and_collect_results and what its last command did; build: the
\* directories of the build check and where its main is.  startDisk (the packages
\* when the run began), gen0 (src/ after each package's first completed
\* population), chained, edits and runs record the history.
VARIABLES ws, disk, pc, ci, ki, hi, test_exists, out, lexit, lrun, build, startDisk,
          gen0,
          chained, edits, runs

vars == <<ws, disk, pc, ci, ki, hi, test_exists, out, lexit, lrun, build, startDisk,
          gen0,
          chained, edits, runs>>

(***************************************************************************)
(* Bounds of the model.                                                    *)
(***************************************************************************)
\* manual edits and interruptions between and during runs, per behaviour
MaxEdits == 2
\* generator runs per behaviour
MaxRuns == 2
\* length of the arbitrary file contents the splice is applied to
MaxContentLen == 5
\* file-scope variables of the .c file whose function is synthesized
MaxUsed == 2

\* the greatest n a setter is called with
MaxN == 6

\* the greatest return code, and the greatest signal, a command ends with
MaxRc == 2

\* the greatest number of lines of a laid out header
MaxHdrLines == 2

(***************************************************************************)
(* Text helpers.                                                           *)
(***************************************************************************)
RECURSIVE Join(_, _)
\* sep.join(lines): lines is a sequence of texts
Join(lines, sep) ==
    IF lines = <<>> THEN <<>>
    ELSE IF Len(lines) = 1 THEN lines[1]
    ELSE lines[1] \o sep \o Join(Tail(lines), sep)

NL == <<"\n">>

IsSpace(c) == c \in {" ", "  ", "\n", "\t"}

RECURSIVE lstrip(_)
lstrip(t) == IF t # <<>> /\ IsSpace(t[1]) THEN lstrip(Tail(t)) ELSE t

RECURSIVE rstrip(_)
rstrip(t) ==
    IF t # <<>> /\ IsSpace(t[Len(t)]) THEN rstrip(SubSeq(t, 1, Len(t) - 1)) ELSE t

\* str.strip()
strip(t) == rstrip(lstrip(t))

\* str.endswith(";")
endswith(t, c) == t # <<>> /\ t[Len(t)] = c

\* whether pat occurs in t at the 0-based offset i
OccursAt(t, pat, i) ==
    /\ i >= 0
    /\ i + Len(pat) <= Len(t)
    /\ \A k \in 1..Len(pat) : t[i + k] = pat[k]

\* str.find(pat): the lowest 0-based offset of pat in t, -1 when absent
find(t, pat) ==
    LET hits == {i \in 0..Len(t) : OccursAt(t, pat, i)}
    IN  IF hits = {} THEN -1 ELSE CHOOSE i \in hits : \A j \in hits : i <= j

\* the lines of a text: the pieces between its "\n" chunks
RECURSIVE SplitLines(_, _)
SplitLines(t, cur) ==
    IF t = <<>> THEN <<cur>>
    ELSE IF t[1] = "\n" THEN <<cur>> \o SplitLines(Tail(t), <<>>)
    ELSE SplitLines(Tail(t), Append(cur, t[1]))

LinesOf(t) == SplitLines(t, <<>>)

\* str.splitlines(keepends=True)
RECURSIVE splitlines_keepends(_, _)
splitlines_keepends(t, cur) ==
    IF t = <<>> THEN (IF cur = <<>> THEN <<>> ELSE <<cur>>)
    ELSE IF t[1] = "\n" THEN <<Append(cur, "\n")>> \o splitlines_keepends(Tail(t), <<>>)
    ELSE splitlines_keepends(Tail(t), Append(cur, t[1]))

RECURSIVE SumLen(_, _)
SumLen(lines, n) == IF n = 0 THEN 0 ELSE Len(lines[n]) + SumLen(lines, n - 1)

Range(s) == {s[i] : i \in DOMAIN s}

(***************************************************************************)
(* The inputs: the scanned tree and what clang reports for each .c file.   *)
(* A name is a text (its pieces), a path the sequence of its parts.  The   *)
(* rank of a path, and of a USR, is its position in Python's sort order.   *)
(***************************************************************************)
\* Path(args.root).resolve().parent
parent == << <<"work">> >>

PLTF == Append(parent, <<"pltf">>)

CFG == Append(parent, <<"cfg">>)

\* scan_roots: [parent / "pltf", parent / "cfg"]
scan_roots == <<PLTF, CFG>>

PathOf(dir, stem, ext) == Append(dir, <<stem, ext>>)

\* Path.name
name(p) == p[Len(p)]

FsFile(path, rank, text) == [path |-> path, is_file |-> TRUE, rank |-> rank, text |-> text]

\* a clang type: kind, Type.is_const_qualified(), Type.spelling,
\* element_type.spelling and element_count (-1 when it has none)
Ty(kind, const, spelling, elem, count) ==
    [kind |-> kind, const |-> const, spelling |-> spelling, elem |-> elem, count |-> count]

NoExtent == [start |-> [line |-> 0, column |-> 0], end |-> [line |-> 0, column |-> 0]]

Extent(l1, c1, l2, c2) ==
    [start |-> [line |-> l1, column |-> c1], end |-> [line |-> l2, column |-> c2]]

\* a cursor; the fields a kind does not have hold neutral values
Cursor(kind, spelling, usr, usr_rank, sem_parent, storage, type, file, extent, is_def, result, args, variadic, body) ==
    [kind |-> kind, spelling |-> spelling, usr |-> usr, usr_rank |-> usr_rank,
     semantic_parent |-> sem_parent, storage_class |-> storage, type |-> type,
     file |-> file, extent |-> extent, is_definition |-> is_def,
     result_type |-> result, arguments |-> args, variadic |-> variadic, body |-> body]

NoType == Ty("INVALID", FALSE, "", "", -1)

NoCursor ==
    Cursor("NONE", "", "", 0, "NONE", "NONE", NoType, <<>>, NoExtent, FALSE, "", <<>>,
           FALSE, <<>>)

\* the declaration text of a variable on its line of the .c file: three
\* chunks, then ";" and the end of the line (the extent stops before ";")
DeclText(v) == <<v.pre, v.spelling, v.post>>

\* a file-scope variable of the file at `file`, declared on line `line`
VarDecl(v, file, line) ==
    Cursor("VAR_DECL", v.spelling, v.usr, v.usr_rank, "TRANSLATION_UNIT", v.storage,
           v.type, file, Extent(line, 1, line, 4), TRUE, "", <<>>, FALSE, <<>>)

\* the variables of the model: every row of the accessor table, and globals
V_arr ==
    [spelling |-> "arr", usr |-> "c:a.c@arr", usr_rank |-> 1, storage |-> "STATIC",
     type |-> Ty("CONSTANTARRAY", FALSE, "int[4]", "int", 4),
     pre |-> "static int ", post |-> "[4]"]

V_buf ==
    [spelling |-> "buf", usr |-> "c:a.c@buf", usr_rank |-> 2, storage |-> "STATIC",
     type |-> Ty("CONSTANTARRAY", TRUE, "const int[8]", "const int", 8),
     pre |-> "static const int ", post |-> "[8]"]

V_count ==
    [spelling |-> "count", usr |-> "c:a.c@count", usr_rank |-> 3, storage |-> "STATIC",
     type |-> Ty("INT", FALSE, "int", "", -1),
     pre |-> "static int ", post |-> " = 0"]

V_ctbl ==
    [spelling |-> "ctbl", usr |-> "c:a.c@ctbl", usr_rank |-> 4, storage |-> "STATIC",
     type |-> Ty("INCOMPLETEARRAY", TRUE, "const int[]", "const int", -1),
     pre |-> "static const int ", post |-> "[]"]

V_k ==
    [spelling |-> "k", usr |-> "c:a.c@k", usr_rank |-> 5, storage |-> "STATIC",
     type |-> Ty("INT", TRUE, "const int", "", -1),
     pre |-> "static const int ", post |-> " = 1"]

V_tbl ==
    [spelling |-> "tbl", usr |-> "c:a.c@tbl", usr_rank |-> 6, storage |-> "STATIC",
     type |-> Ty("INCOMPLETEARRAY", FALSE, "int[]", "int", -1),
     pre |-> "static int ", post |-> "[]"]

V_gv ==
    [spelling |-> "gv", usr |-> "c:@gv", usr_rank |-> 0, storage |-> "NONE",
     type |-> Ty("INT", FALSE, "int", "", -1),
     pre |-> "int ", post |-> " = 7"]

\* a global array: were it static, it would get a pointer, a size and a setter
V_garr ==
    [spelling |-> "garr", usr |-> "c:@garr", usr_rank |-> -1, storage |-> "NONE",
     type |-> Ty("CONSTANTARRAY", FALSE, "int[2]", "int", 2),
     pre |-> "int ", post |-> "[2]"]

\* a static variable that an included header declares: its USR carries the
\* name of the header, v.h, and not that of the .c file
V_aux ==
    [spelling |-> "aux", usr |-> "c:v.h@aux", usr_rank |-> 7, storage |-> "STATIC",
     type |-> Ty("INT", FALSE, "int", "", -1),
     pre |-> "static int ", post |-> " = 0"]

Statics == {V_arr, V_aux, V_buf, V_count, V_ctbl, V_k, V_tbl}

Globals == {V_gv, V_garr}

\* a node of a function body: its kind, the declaration it refers to and
\* its children
Node(kind, referenced, children) ==
    [kind |-> kind, referenced |-> referenced, children |-> children]

DeclRef(c) == Node("DECL_REF_EXPR", c, <<>>)

\* a reference to something that is no file-scope variable: a local
LocalVar ==
    Cursor("VAR_DECL", "tmp", "c:a.c@F@f@tmp", 9, "FUNCTION_DECL", "NONE",
           Ty("INT", FALSE, "int", "", -1), <<>>, NoExtent, TRUE, "", <<>>, FALSE, <<>>)

RECURSIVE RefNodes(_, _, _)
\* one reference expression per variable of vs
RefNodes(vs, file, line) ==
    IF vs = <<>> THEN <<>>
    ELSE <<DeclRef(VarDecl(vs[1], file, line))>> \o RefNodes(Tail(vs), file, line + 1)

\* the body of a function that refers to the variables vs of the file: a
\* local, a function-local static that hides a file-scope name, a call of
\* another function, an enumerator, the first variable at the top level,
\* every variable inside a nested statement, and every variable again
\* inside an expression of a loop nested in that statement
BodyOf(vs, file) ==
    LET hidden == [LocalVar EXCEPT !.spelling = "count", !.usr = "c:a.c@F@f@count",
                                   !.storage_class = "STATIC"]
        callee == Cursor("FUNCTION_DECL", "h", "c:@F@h", 0, "TRANSLATION_UNIT", "NONE",
                         NoType, file, NoExtent, FALSE, "int", <<>>, FALSE, <<>>)
        enumerator == Cursor("ENUM_CONSTANT_DECL", "RED", "c:@Ea@RED", 0, "ENUM_DECL", "NONE",
                             Ty("INT", FALSE, "int", "", -1), file, NoExtent, TRUE, "",
                             <<>>, FALSE, <<>>)
        deep == Node("WHILE_STMT", NoCursor,
                     <<Node("BINARY_OPERATOR", NoCursor,
                            <<Node("UNEXPOSED_EXPR", NoCursor, RefNodes(vs, file, 1))>>),
                       Node("COMPOUND_STMT", NoCursor, <<>>)>>)
    IN  Node("COMPOUND_STMT", NoCursor,
             <<DeclRef(LocalVar), DeclRef(hidden),
               Node("CALL_EXPR", callee, <<Node("UNEXPOSED_EXPR", callee, <<DeclRef(callee)>>)>>),
               DeclRef(enumerator)>>
             \o RefNodes(SubSeq(vs, 1, IF vs = <<>> THEN 0 ELSE 1), file, 1)
             \o <<Node("IF_STMT", NoCursor,
                       <<Node("COMPOUND_STMT", NoCursor,
                              RefNodes(vs, file, 1) \o <<deep>>)>>)>>)

\* the lines of the .c file: one line per variable, three per function
VarLine(v) == DeclText(v) \o <<";", "\n">>

FnLines(f) == <<"int ", f, "(void)", " ", "{", "\n", "  ", "return 0;", "\n", "}", "\n">>

RECURSIVE CText(_, _)
CText(vs, fs) ==
    IF vs # <<>> THEN VarLine(vs[1]) \o CText(Tail(vs), fs)
    ELSE IF fs # <<>> THEN FnLines(fs[1]) \o CText(vs, Tail(fs))
    ELSE <<>>

\* the definition of function f, the j-th of a file with nv variables
FnDef(f, file, nv, j, uses) ==
    Cursor("FUNCTION_DECL", f, "", 0, "TRANSLATION_UNIT", "NONE", NoType, file,
           Extent(nv + 3 * (j - 1) + 1, 1, nv + 3 * (j - 1) + 3, 2), TRUE, "int", <<>>,
           FALSE, <<BodyOf(uses, file)>>)

\* a prototype seen through an #include: a declaration of another file
FnProto(f, file) ==
    Cursor("FUNCTION_DECL", f, "", 0, "TRANSLATION_UNIT", "NONE", NoType, file,
           NoExtent, FALSE, "int", <<>>, FALSE, <<>>)

RECURSIVE VarDecls(_, _, _)
VarDecls(vs, file, line) ==
    IF vs = <<>> THEN <<>>
    ELSE <<VarDecl(vs[1], file, line)>> \o VarDecls(Tail(vs), file, line + 1)

RECURSIVE FnDefs(_, _, _, _, _)
FnDefs(fs, file, nv, j, uses) ==
    IF fs = <<>> THEN <<>>
    ELSE <<FnDef(fs[1], file, nv, j, IF j = 1 THEN uses ELSE <<>>)>>
         \o FnDefs(Tail(fs), file, nv, j + 1, uses)

\* sys/v.h, outside the scan roots: the header that declares aux
H_v == FsFile(<<<<"work">>, <<"sys">>, <<"v", ".h">>>>, 9, VarLine(V_aux))

\* a .c file with the functions fs, the first of which uses every variable
\* of vs: aux comes with the included v.h, the .c file declares the others;
\* hdr is another header it includes
CFile(path, rank, vs, fs, hdr) ==
    LET own == SelectSeq(vs, LAMBDA v : v # V_aux)
        inc == SelectSeq(vs, LAMBDA v : v = V_aux)
    IN  [path |-> path, is_file |-> TRUE, rank |-> rank, text |-> CText(own, fs),
         children |-> <<FnProto("f", hdr)>> \o VarDecls(inc, H_v.path, 1)
                      \o VarDecls(own, path, 1)
                      \o FnDefs(fs, path, Len(own), 1, vs)]

(***************************************************************************)
(* generate_test_units.py: discovery.                                      *)
(***************************************************************************)
Min(S) == CHOOSE x \in S : \A y \in S : x <= y

\* whether path r is a proper prefix of path p
Under(r, p) == Len(r) < Len(p) /\ SubSeq(p, 1, Len(r)) = r

\* str.startswith("TEST_") of a path part
startswith_TEST(part) == part # <<>> /\ part[1] = "TEST_"

_is_in_test_dir(p) == \E i \in DOMAIN p : startswith_TEST(p[i])

\* Path.rglob("*" + ext) under r, kept when a file and outside test
\* packages: a list, each entry once, here in path order
rglob_kept(w, r, ext) ==
    LET kept == {e \in w.files : /\ Under(r, e.path)
                                 /\ endswith(name(e.path), ext)
                                 /\ e.is_file
                                 /\ ~_is_in_test_dir(e.path)}
        RECURSIVE listed(_)
        listed(S) ==
            IF S = {} THEN <<>>
            ELSE LET m == CHOOSE e \in S : \A o \in S : e.rank <= o.rank
                 IN  <<m>> \o listed(S \ {m})
    IN  listed(kept)

RECURSIVE sorted_descending(_)
\* a variant of sorted that puts the greatest path first
sorted_descending(lst) ==
    IF lst = <<>> THEN <<>>
    ELSE LET i == CHOOSE k \in DOMAIN lst : \A j \in DOMAIN lst : lst[k].rank >= lst[j].rank
         IN  <<lst[i]>>
             \o sorted_descending(SubSeq(lst, 1, i - 1) \o SubSeq(lst, i + 1, Len(lst)))

RECURSIVE sorted(_)
\* sorted(out), out a list of entries, by path: an entry that is in the
\* list twice is in the result twice
sorted(lst) ==
    IF lst = <<>> THEN <<>>
    ELSE LET i == CHOOSE k \in DOMAIN lst : \A j \in DOMAIN lst : lst[k].rank <= lst[j].rank
         IN  <<lst[i]>> \o sorted(SubSeq(lst, 1, i - 1) \o SubSeq(lst, i + 1, Len(lst)))

RECURSIVE gathered_until_missing(_, _, _)
\* a variant of gathered that gives up at the first root that is no directory
gathered_until_missing(w, roots, ext) ==
    IF roots = <<>> \/ roots[1] \notin w.dirs THEN <<>>
    ELSE rglob_kept(w, roots[1], ext) \o gathered_until_missing(w, Tail(roots), ext)

RECURSIVE gathered(_, _, _)
\* out after the loop over the roots
gathered(w, roots, ext) ==
    IF roots = <<>> THEN <<>>
    ELSE (IF roots[1] \in w.dirs THEN rglob_kept(w, roots[1], ext) ELSE <<>>)
         \o gathered(w, Tail(roots), ext)

list_headers(w, roots) == sorted(gathered(w, roots, ".h"))

list_c_files(w, roots) == sorted(gathered(w, roots, ".c"))

(***************************************************************************)
(* generate_test_units.py: clang helpers.                                  *)
(***************************************************************************)
\* a variant of idx that takes the column as an offset from 0: the
\* properties of the function text must tell it from idx
idx_column_kept(lines, loc) == SumLen(lines, loc.line - 1) + loc.column

\* idx(loc) of text_from_extent
idx(lines, loc) == SumLen(lines, loc.line - 1) + (loc.column - 1)

\* src[start:end] for the text src of the extent's file
text_from_extent(src, ext) ==
    LET lines == splitlines_keepends(src, <<>>)
    IN  SubSeq(src, idx(lines, ext.start) + 1, idx(lines, ext.end))

RECURSIVE params_of(_)
params_of(args) ==
    IF args = <<>> THEN <<>>
    ELSE <<<<args[1].type, " ", IF args[1].spelling = "" THEN "param" ELSE args[1].spelling>>>>
         \o params_of(Tail(args))

function_prototype(fn) ==
    LET params == params_of(fn.arguments) \o (IF fn.variadic THEN <<<<"...">>>> ELSE <<>>)
        param_str == IF params = <<>> THEN <<"void">> ELSE Join(params, <<", ">>)
    IN  <<fn.result_type, " ", fn.spelling, "(">> \o param_str \o <<");">>

\* the keys of collect_tu_globals: the USRs of the file-scope variables
tu_global_usrs(children) ==
    {children[i].usr : i \in {j \in DOMAIN children :
        /\ children[j].kind = "VAR_DECL"
        /\ children[j].semantic_parent = "TRANSLATION_UNIT"}}

\* collect_tu_globals: USR -> cursor, a later declaration replacing an earlier
collect_tu_globals(children) ==
    [u \in tu_global_usrs(children) |->
        LET is == {j \in DOMAIN children :
                    /\ children[j].kind = "VAR_DECL"
                    /\ children[j].semantic_parent = "TRANSLATION_UNIT"
                    /\ children[j].usr = u}
        IN  children[CHOOSE j \in is : \A k \in is : k <= j]]

\* a variant of classify_var that takes every variable, whatever declares
\* it, for a file-scope one without internal linkage
classify_var_any_scope(ref) ==
    IF ref.kind # "VAR_DECL" THEN <<FALSE, FALSE>> ELSE <<TRUE, FALSE>>

\* a variant of classify_var that takes every file-scope variable for a
\* static one
classify_var_all_static(ref) ==
    IF ref.kind # "VAR_DECL" THEN <<FALSE, FALSE>>
    ELSE IF ref.semantic_parent = "TRANSLATION_UNIT"
         THEN <<TRUE, TRUE>>
         ELSE <<FALSE, FALSE>>

\* classify_var: <<is_glob, is_stat>>
classify_var(ref) ==
    IF ref.kind # "VAR_DECL" THEN <<FALSE, FALSE>>
    ELSE IF ref.semantic_parent = "TRANSLATION_UNIT"
         THEN <<TRUE, ref.storage_class = "STATIC">>
         ELSE <<FALSE, FALSE>>

NoUse == [calls |-> {}, used_globals |-> {}, used_static |-> {}]

UseUnion(a, b) ==
    [calls |-> a.calls \cup b.calls,
     used_globals |-> a.used_globals \cup b.used_globals,
     used_static |-> a.used_static \cup b.used_static]

\* the target of a call: the first child that refers to a declaration
call_target(n) ==
    LET is == {i \in DOMAIN n.children : n.children[i].referenced.kind # "NONE"}
    IN  IF is = {} THEN NoCursor ELSE n.children[Min(is)].referenced

\* what walk(n) records at node n itself
walk_here(n, tu_globals) ==
    LET tgt == call_target(n)
        c == IF /\ n.kind = "CALL_EXPR"
                /\ tgt.kind = "FUNCTION_DECL"
                /\ tgt.spelling # ""
             THEN {tgt.spelling} ELSE {}
        ref == n.referenced
        cls == classify_var(ref)
        hit == /\ n.kind = "DECL_REF_EXPR"
               /\ ref.kind # "NONE"
               /\ cls[1]
               /\ ref.usr \in DOMAIN tu_globals
    IN  [calls |-> c,
         used_globals |-> IF hit /\ ~cls[2] THEN {ref.usr} ELSE {},
         used_static |-> IF hit /\ cls[2] THEN {ref.usr} ELSE {}]

\* a variant of walk that stops at the children of the node
walk_children_only(n, tu_globals) ==
    LET here(m) == walk_here(m, tu_globals)
        RECURSIVE each(_)
        each(ns) == IF ns = <<>> THEN NoUse ELSE UseUnion(here(ns[1]), each(Tail(ns)))
    IN  UseUnion(here(n), each(n.children))

RECURSIVE walk(_, _)
RECURSIVE walk_all(_, _)
walk(n, tu_globals) ==
    UseUnion(walk_here(n, tu_globals), walk_all(n.children, tu_globals))

walk_all(ns, tu_globals) ==
    IF ns = <<>> THEN NoUse
    ELSE UseUnion(walk(ns[1], tu_globals), walk_all(Tail(ns), tu_globals))

\* the children of fn that analyze_function walks
compound_children(fn) ==
    SelectSeq(fn.body, LAMBDA ch : ch.kind = "COMPOUND_STMT")

analyze_function(fn, tu_globals) == walk_all(compound_children(fn), tu_globals)

is_const_qualified(t) == t.const

is_array_type(t) ==
    t.kind \in {"CONSTANTARRAY", "INCOMPLETEARRAY", "VARIABLEARRAY", "DEPENDENTSIZEDARRAY"}

array_elem_type_spelling(t) == t.elem

\* a variant of array_count_or_none that is off by one
array_count_plus_one(t) == IF t.kind = "CONSTANTARRAY" THEN t.count + 1 ELSE -1

\* the element count, -1 standing for None
array_count_or_none(t) == IF t.kind = "CONSTANTARRAY" THEN t.count ELSE -1

(***************************************************************************)
(* remove_function_proto_from_header: the regular expression               *)
(* (line start, blanks, an optional prefix of class characters ending in   *)
(* blanks, the name, a parameter list, ";", blanks up to a line end)       *)
(* matched on the chunks of a header text, each chunk one token: a word,   *)
(* a run of blanks, a line end or a punctuation character.                 *)
(***************************************************************************)
Punct == {"(", ")", ",", "*", "[", "]", ":", ";", "{", "}", "#", "/", "=", "<", ">"}

\* the punctuation of the character class of the prefix
ClassPunct == {"(", ")", ",", "*", "[", "]", ":"}

\* a token of \w characters that starts with [A-Za-z_]
IsWord(c) == ~IsSpace(c) /\ c \notin Punct

InClass(c) == IsWord(c) \/ IsSpace(c) \/ c \in ClassPunct

\* the tokens of the model that are one character long
OneChar == Punct \cup {" ", "\n", "\t", "T"}

\* the number of characters of a token, 2 standing for two or more
TokLen(c) == IF c \in OneChar THEN 1 ELSE 2

RECURSIVE CharCount(_, _, _)
CharCount(t, a, b) == IF a > b THEN 0 ELSE TokLen(t[a]) + CharCount(t, a + 1, b)

\* \s* from index i on: the index of the first token that is no blank
SkipWs(t, i) == Min({j \in i..(Len(t) + 1) : j = Len(t) + 1 \/ ~IsSpace(t[j])})

\* the name at index k, then blanks, a parenthesis, anything but ";" and "{"
\* up to a closing parenthesis, blanks, ";", blanks, and a line end or the
\* end of the text ahead: the index of the last token of the match, 0 when
\* there is none
ProtoTail(t, k) ==
    LET p == SkipWs(t, k + 1)
        stops == {j \in (p + 1)..Len(t) : t[j] \in {";", "{"}}
        q == IF stops = {} THEN 0 ELSE Min(stops)
        closes == {j \in (p + 1)..(q - 1) : ~IsSpace(t[j])}
        r == IF closes = {} THEN 0 ELSE CHOOSE j \in closes : \A o \in closes : o <= j
        z == SkipWs(t, q + 1) - 1
        nls == {j \in (q + 1)..z : t[j] = "\n"}
    IN  IF p > Len(t) \/ t[p] # "(" THEN 0
        ELSE IF q = 0 \/ t[q] # ";" THEN 0
        ELSE IF r = 0 \/ t[r] # ")" THEN 0
        ELSE IF z = Len(t) THEN z
        ELSE IF nls = {} THEN 0
        ELSE (CHOOSE j \in nls : \A o \in nls : o <= j) - 1

\* the match of everything after the line start, from index s on: the index of its
\* last token, 0 when there is none.  The optional prefix is tried first,
\* shortest first, then the name without a prefix.
ProtoMatchEnd(t, fname, s) ==
    LET a == SkipWs(t, s)
        withPrefix == {k \in (a + 1)..Len(t) :
                         /\ t[k] = fname
                         /\ IsWord(t[a])
                         /\ \A i \in a..(k - 1) : InClass(t[i])
                         /\ IsSpace(t[k - 1])
                         /\ CharCount(t, a, k - 1) >= 3
                         /\ ProtoTail(t, k) # 0}
    IN  IF a > Len(t) THEN 0
        ELSE IF withPrefix # {} THEN ProtoTail(t, Min(withPrefix))
        ELSE IF t[a] = fname THEN ProtoTail(t, a)
        ELSE 0

RECURSIVE proto_sub(_, _, _)
\* re.sub(pattern, r"\1", text) from index i on
proto_sub(t, fname, i) ==
    IF i > Len(t) THEN <<>>
    ELSE LET atStart == IF i = 1 THEN ProtoMatchEnd(t, fname, 1) ELSE 0
             atNl == IF t[i] = "\n" THEN ProtoMatchEnd(t, fname, i + 1) ELSE 0
         IN  IF atStart # 0 THEN proto_sub(t, fname, atStart + 1)
             ELSE IF atNl # 0 THEN <<"\n">> \o proto_sub(t, fname, atNl + 1)
             ELSE <<t[i]>> \o proto_sub(t, fname, i + 1)

remove_function_proto_from_header(text, func_name) == proto_sub(text, func_name, 1)

(***************************************************************************)
(* generate_test_units.py, main: the texts it writes for one function.     *)
(***************************************************************************)
\* str.upper() of the function names of the model
upper(n) == CASE n = "f" -> "F" [] n = "g" -> "G" [] OTHER -> n

RECURSIVE sorted_usrs(_, _)
\* sorted(used_usr): the USRs in string order
sorted_usrs(S, tu_globals) ==
    IF S = {} THEN <<>>
    ELSE LET m == CHOOSE u \in S :
                    \A o \in S : tu_globals[u].usr_rank <= tu_globals[o].usr_rank
         IN  <<m>> \o sorted_usrs(S \ {m}, tu_globals)

need_stddef(used_stat_usr, tu_globals) ==
    \E u \in used_stat_usr : is_array_type(tu_globals[u].type)

\* a variant of need_string that asks for an array only
need_string_any_array(used_stat_usr, tu_globals) ==
    \E u \in used_stat_usr : is_array_type(tu_globals[u].type)

need_string(used_stat_usr, tu_globals) ==
    \E u \in used_stat_usr :
        /\ is_array_type(tu_globals[u].type)
        /\ ~is_const_qualified(tu_globals[u].type)
        /\ array_count_or_none(tu_globals[u].type) # -1

\* a variant of array_setter that does not look at the count
array_setter_any_count(v_is_const, cnt) == ~v_is_const

\* whether the setter of an array is emitted
array_setter(v_is_const, cnt) == (~v_is_const) /\ (cnt # -1)

\* whether the setter of a scalar is emitted
scalar_setter(v_is_const) == ~v_is_const

\* the prototypes the header declares for the static variable v
header_accessors(v) ==
    LET t == v.type
        vname == v.spelling
        v_is_const == is_const_qualified(t)
        elem_t == array_elem_type_spelling(t)
        cnt == array_count_or_none(t)
        tname == t.spelling
    IN  IF is_array_type(t)
        THEN <<(IF v_is_const THEN <<"const ">> ELSE <<>>)
                 \o <<elem_t, "* get_", vname, "_ptr(void);">>,
               <<"size_t get_", vname, "_size(void);">>>>
             \o (IF array_setter(v_is_const, cnt)
                 THEN <<<<"void set_", vname, "(const ", elem_t, "* src, size_t n);">>>>
                 ELSE <<>>)
        ELSE <<<<tname, " get_", vname, "(void);">>>>
             \o (IF scalar_setter(v_is_const)
                 THEN <<<<"void set_", vname, "(", tname, " val);">>>>
                 ELSE <<>>)

RECURSIVE header_accessors_all(_, _)
header_accessors_all(usrs, tu_globals) ==
    IF usrs = <<>> THEN <<>>
    ELSE header_accessors(tu_globals[usrs[1]])
         \o header_accessors_all(Tail(usrs), tu_globals)

RECURSIVE include_lines(_, _, _)
\* one line per discovered header, naming it by its file name
include_lines(hs, pre, post) ==
    IF hs = <<>> THEN <<>>
    ELSE <<pre \o name(hs[1].path) \o post>> \o include_lines(Tail(hs), pre, post)

\* header_lines of src/<fn>.h
header_lines(fn, used_stat_usr, tu_globals, headers_all) ==
    LET fn_name == fn.spelling
        sd == need_stddef(used_stat_usr, tu_globals)
        st == need_string(used_stat_usr, tu_globals)
    IN  <<<<"#ifndef TEST_", upper(fn_name), "_H">>,
          <<"#define TEST_", upper(fn_name), "_H">>,
          <<>>>>
        \o include_lines(headers_all, <<"#include \"">>, <<"\"">>)
        \o <<<<>>>>
        \o (IF sd THEN <<<<"#include <stddef.h>">>>> ELSE <<>>)
        \o (IF st THEN <<<<"#include <string.h>">>>> ELSE <<>>)
        \o (IF sd \/ st THEN <<<<>>>> ELSE <<>>)
        \o <<function_prototype(fn)>>
        \o header_accessors_all(sorted_usrs(used_stat_usr, tu_globals), tu_globals)
        \o <<<<>>, <<"#endif /* TEST_", upper(fn_name), "_H */", "\n">>>>

\* text_from_extent(v.extent).strip(), ended with ";" when it does not;
\* read is read_text, the text of each file
decl_copy(v, read) ==
    LET orig == strip(text_from_extent(read[v.file], v.extent))
    IN  IF endswith(orig, ";") THEN orig ELSE orig \o <<";">>

\* the size query written for an array of unknown count
size_query_unknown(vname) == <<"size_t get_{vname}_size(void) { return 0; }">>

\* the accessor definitions the implementation holds for the static v
impl_accessors(v) ==
    LET t == v.type
        vname == v.spelling
        v_is_const == is_const_qualified(t)
        elem_t == array_elem_type_spelling(t)
        cnt == array_count_or_none(t)
        tname == t.spelling
    IN  IF is_array_type(t)
        THEN <<(IF v_is_const THEN <<"const ">> ELSE <<>>)
                 \o <<elem_t, "* get_", vname, "_ptr(void) { return ", vname, "; }">>>>
             \o (IF cnt # -1
                 THEN <<<<"size_t get_", vname, "_size(void) { return (size_t)",
                          ToString(cnt), "; }">>>>
                 ELSE <<size_query_unknown(vname)>>)
             \o (IF array_setter(v_is_const, cnt)
                 THEN <<<<"void set_", vname, "(const ", elem_t, "* src, size_t n) {", "\n",
                          "    size_t m = (n < (size_t)", ToString(cnt), ") ? n : (size_t)",
                          ToString(cnt), ";", "\n",
                          "    memcpy(", vname, ", src, m * sizeof(", elem_t, "));", "\n",
                          "}">>>>
                 ELSE <<>>)
        ELSE <<<<tname, " get_", vname, "(void) { return ", vname, "; }">>>>
             \o (IF scalar_setter(v_is_const)
                 THEN <<<<"void set_", vname, "(", tname, " val) { ", vname, " = val; }">>>>
                 ELSE <<>>)

RECURSIVE global_copies(_, _, _)
global_copies(usrs, tu_globals, read) ==
    IF usrs = <<>> THEN <<>>
    ELSE <<decl_copy(tu_globals[usrs[1]], read)>>
         \o global_copies(Tail(usrs), tu_globals, read)

RECURSIVE static_copies(_, _, _)
static_copies(usrs, tu_globals, read) ==
    IF usrs = <<>> THEN <<>>
    ELSE <<decl_copy(tu_globals[usrs[1]], read)>>
         \o impl_accessors(tu_globals[usrs[1]])
         \o static_copies(Tail(usrs), tu_globals, read)

\* the delimiting comment, in three chunks: it begins and ends with "/"
marker == <<"/", "* FUNCTION TO TEST *", "/">>

\* a variant of impl_tail that opens a block of statics in every case
impl_tail_with_block(fn_text) == <<<<"/* static globals (copied) */">>, <<>>, marker, fn_text>>

\* the lines after the dependency blocks: the marker and the function text
impl_tail(fn_text) == <<marker, fn_text>>

\* impl of src/<fn>.c
impl_lines(fn, used_glob_usr, used_stat_usr, tu_globals, read) ==
    <<<<"#include \"", fn.spelling, ".h", "\"">>,
      <<"#include <stddef.h>">>,
      <<"#include <string.h>">>,
      <<>>>>
    \o (IF used_glob_usr # {}
        THEN <<<<"/* globals used (real definitions) */">>>>
             \o global_copies(sorted_usrs(used_glob_usr, tu_globals), tu_globals, read)
             \o <<<<>>>>
        ELSE <<>>)
    \o (IF used_stat_usr # {}
        THEN <<<<"/* static globals (copied) */">>>>
             \o static_copies(sorted_usrs(used_stat_usr, tu_globals), tu_globals, read)
             \o <<<<>>>>
        ELSE <<>>)
    \o impl_tail(text_from_extent(read[fn.file], fn.extent))

\* test_c of test/test_<fn>.c
test_c_lines(fn_name, headers_all) ==
    <<<<"#include <", fn_name, ".h", ">">>, <<"#include \"unity.h\"">>, <<>>>>
    \o include_lines(headers_all, <<"#include \"mock_">>, <<"\"">>)
    \o <<<<>>, <<"void setUp(void) {}">>, <<"void tearDown(void) {}">>, <<>>,
         <<"void test_", fn_name, "(void)">>, <<"{">>,
         <<"    TEST_IGNORE_MESSAGE(\"Auto-generated stub test\");">>, <<"}">>, <<>>>>

(***************************************************************************)
(* The workspaces of the model.                                            *)
(***************************************************************************)
INC == Append(PLTF, <<"inc">>)

\* pltf/inc/x.h: the prototypes of f and g
H_x ==
    FsFile(PathOf(INC, "x", ".h"), 6,
           <<"int", " ", "f", "(", "void", ")", ";", "\n",
             "int", " ", "g", "(", "void", ")", ";", "\n">>)

\* cfg/x.h: another header of the same file name
H_x2 ==
    FsFile(PathOf(CFG, "x", ".h"), 2,
           <<"#", "define", " ", "LIMIT", " ", "8", "\n",
             "int", " ", "g", "(", "void", ")", ";", "\n">>)

\* pltf/f.h: a header named after the function f
H_f ==
    FsFile(PathOf(PLTF, "f", ".h"), 5,
           <<"extern", " ", "int", " ", "f", "(", "void", ")", ";", "\n">>)

\* pltf/TEST_g/src/x.h: a header inside a generated package
H_pkg ==
    FsFile(<<<<"work">>, <<"pltf">>, <<"TEST_", "g">>, <<"src">>, <<"x", ".h">>>>, 3, <<>>)

\* pltf/a.c: f, which uses vs, and g
C_a(vs) == CFile(PathOf(PLTF, "a", ".c"), 4, vs, <<"f", "g">>, PathOf(INC, "x", ".h"))

\* cfg/b.c: another definition of f
C_b == CFile(PathOf(CFG, "b", ".c"), 1, <<>>, <<"f">>, PathOf(INC, "x", ".h"))

Dirs == {PLTF, CFG, INC}

Workspace(dirs, files) == [dirs |-> dirs, files |-> files]

\* the headers a tree may hold; t is cfg/TEST_util.h, a header whose file
\* name starts like a package, and d is pltf/inc/z.h, a directory
Headers ==
    [x |-> H_x, x2 |-> H_x2, f |-> H_f, pkg |-> H_pkg,
     t |-> FsFile(Append(CFG, <<"TEST_", "util", ".h">>), 0, <<>>),
     d |-> [FsFile(PathOf(INC, "z", ".h"), 8, <<>>) EXCEPT !.is_file = FALSE]]

\* the lines a header is laid out with: prototypes of f in several
\* layouts, and lines that are no prototype of f
ProtoLines ==
    [plain |-> <<"int", " ", "f", "(", "void", ")", ";", "\n">>,
     spaced |-> <<"extern", " ", "int", " ", "f", " ", "(", "void", ")", " ", ";", "\n">>,
     star |-> <<"int", " ", "*", "f", "(", "void", ")", ";", "\n">>,
     noted |-> <<"int", " ", "f", "(", "void", ")", ";", " ", "/", "*", " ", "note", " ", "*",
                 "/", "\n">>,
     split |-> <<"int", "\n", "f", "(", "int", " ", "a", ",", "\n", " ", "int", " ", "b",
                 ")", ";", "\n">>,
     short |-> <<"T", " ", "f", "(", "void", ")", ";", "\n">>,
     bare |-> <<"f", "(", "void", ")", ";", "\n">>,
     pair |-> <<"int", " ", "g", "(", "void", ")", ";", " ", "int", " ", "f", "(", "void",
                ")", ";", "\n">>,
     other |-> <<"int", " ", "g", "(", "void", ")", ";", "\n">>,
     suffix |-> <<"int", " ", "xf", "(", "void", ")", ";", "\n">>,
     macro |-> <<"API", "\n">>,
     define |-> <<"#", "define", " ", "N", " ", "1", "\n">>]

RECURSIVE LayText(_)
\* the text of the header laid out with the lines named by lay
LayText(lay) == IF lay = <<>> THEN <<>> ELSE ProtoLines[lay[1]] \o LayText(Tail(lay))

\* pltf/inc/y.h: a header with the layout lay
H_lay(lay) == FsFile(PathOf(INC, "y", ".h"), 7, LayText(lay))

VarNamed(n) == CHOOSE v \in Statics \cup Globals : v.spelling = n

RECURSIVE VarsNamed(_)
VarsNamed(ns) == IF ns = <<>> THEN <<>> ELSE <<VarNamed(ns[1])>> \o VarsNamed(Tail(ns))

\* a tree is chosen by the headers it holds (hs), the variables a.c
\* declares, in their order (vs), whether b.c is there (b), and the layout
\* of y.h (lay), empty when the tree has no y.h, and which of the scan
\* roots exist (roots)
Choice(hs, vs, b) == [hs |-> hs, vs |-> vs, b |-> b, lay |-> <<>>, roots |-> {PLTF, CFG}]

\* the tree that holds a.c and the header y.h
Layout(lay) == [Choice({}, <<>>, FALSE) EXCEPT !.lay = lay]

\* the tree of choice c without the scan roots that are not in roots
Rooted(c, roots) == [c EXCEPT !.roots = roots]

\* the tree of a choice: what lies under a root that does not exist is not there
Tree(d) ==
    LET under(p) == \E r \in d.roots : r = p \/ Under(r, p)
        files == {Headers[h] : h \in d.hs}
                 \cup (IF d.lay # <<>> THEN {H_lay(d.lay)} ELSE {})
                 \cup {C_a(VarsNamed(d.vs))}
                 \cup (IF d.b THEN {C_b} ELSE {})
    IN  Workspace({p \in Dirs : under(p)}, {e \in files : under(e.path)})

\* read_text: the text of each file of the tree, and of the included v.h
read_text(w) ==
    LET files == Tree(w).files \cup {H_v}
    IN  [p \in {e.path : e \in files} |-> (CHOOSE e \in files : e.path = p).text]

\* the trees of the specification Spec
Workspaces ==
    {Choice({"x", "pkg"}, <<"gv", "tbl", "arr">>, FALSE),
     Choice({"x", "x2"}, <<"buf">>, FALSE),
     Choice({"f"}, <<>>, FALSE),
     Choice({}, <<"count">>, TRUE)}

\* the function names of the model: one package each
Pkgs == {"f", "g"}

(***************************************************************************)
(* The packages on disk.                                                   *)
(***************************************************************************)
NoDir == [present |-> FALSE, files |-> <<>>]

NoPkg == [exists |-> FALSE, test |-> NoDir, src |-> NoDir]

\* write_text(dir / n, s): the directory is made when missing
write_text(dir, n, s) == [present |-> TRUE, files |-> (n :> s) @@ dir.files]

\* Path.mkdir(parents=True, exist_ok=True)
mkdir(dir) == [present |-> TRUE, files |-> dir.files]

\* any(src_dir.iterdir())
has_entries(dir) == DOMAIN dir.files # {}

h_name(fn_name) == <<fn_name, ".h">>

c_name(fn_name) == <<fn_name, ".c">>

test_name(fn_name) == <<"test_", fn_name, ".c">>

(***************************************************************************)
(* generate_test_units.py, main: one step per loop iteration and write.    *)
(***************************************************************************)
headers_all == list_headers(Tree(ws), scan_roots)

c_files == list_c_files(Tree(ws), scan_roots)

\* for fn in tu.cursor.get_children(): the filter of the loop
is_candidate(fn, c_path) ==
    /\ fn.kind = "FUNCTION_DECL"
    /\ fn.is_definition
    /\ fn.file = c_path

\* a variant of next_loc that ends the run at the end of a file
next_loc_first_file(c, k) ==
    IF c > Len(c_files) \/ k > Len(c_files[c].children) THEN <<0, 0>> ELSE <<c, k>>

RECURSIVE next_loc(_, _)
\* the next child at or after child k of file c, <<0, 0>> past the last file
next_loc(c, k) ==
    IF c > Len(c_files) THEN <<0, 0>>
    ELSE IF k > Len(c_files[c].children) THEN next_loc(c + 1, 1)
    ELSE <<c, k>>

\* move to the next iteration of the loops
Goto(loc) ==
    /\ ci' = loc[1]
    /\ ki' = loc[2]
    /\ pc' = IF loc = <<0, 0>> THEN "done" ELSE "fn"

cur_file == c_files[ci]

cur_fn == cur_file.children[ki]

tu_globals == collect_tu_globals(cur_file.children)

used == analyze_function(cur_fn, tu_globals)

\* variants of the three cases: one skips an empty src/ and not a
\* populated one, one never skips, one makes test/ in every case, one
\* writes the stub in every case
should_skip_when_empty(src_exists, src_empty) == src_exists /\ src_empty

should_skip_never(src_exists, src_empty) == FALSE

test_missing_always(t_exists) == TRUE

stub_needed_always(t_exists) == TRUE

\* CASE 3: whether the package is skipped
should_skip(src_exists, src_empty) == src_exists /\ ~src_empty

\* CASE 1: whether test/ is made
test_missing(t_exists) == ~t_exists

\* whether the stub test is written
stub_needed(t_exists) == ~t_exists

Running == pc \notin {"idle", "done"}

StartRun ==
    /\ ~Running
    /\ runs < MaxRuns
    /\ runs' = runs + 1
    /\ startDisk' = disk
    /\ chained' = (pc = "done")
    /\ out' = <<>>
    /\ Goto(next_loc(1, 1))
    /\ UNCHANGED <<ws, build, lrun, disk, hi, test_exists, lexit, gen0, edits>>

\* lines 199-226: the filter, the three cases and the directories
Classify ==
    /\ pc = "fn"
    /\ LET fn == cur_fn
           fn_name == fn.spelling
           pkg == disk[fn_name]
           t_exists == pkg.exists
           src_exists == pkg.src.present
           src_empty == (~src_exists) \/ (src_exists /\ ~has_entries(pkg.src))
       IN  IF ~is_candidate(fn, cur_file.path)
           THEN /\ Goto(next_loc(ci, ki + 1))
                /\ UNCHANGED <<disk, test_exists, out>>
           ELSE IF should_skip(src_exists, src_empty)
           THEN /\ out' = Append(out, [kind |-> "SKIP", fn |-> fn_name])
                /\ Goto(next_loc(ci, ki + 1))
                /\ UNCHANGED <<disk, test_exists>>
           ELSE /\ test_exists' = t_exists
                /\ disk' = [disk EXCEPT ![fn_name] =
                              [exists |-> TRUE,
                               test |-> IF test_missing(t_exists) THEN mkdir(pkg.test)
                                        ELSE pkg.test,
                               src |-> mkdir(pkg.src)]]
                /\ pc' = "header"
                /\ UNCHANGED <<ci, ki, out>>
    /\ UNCHANGED <<ws, build, lrun, hi, lexit, startDisk, gen0, chained, edits, runs>>

\* a write into src/ of the current function's package
WriteSrc(n, s) ==
    disk' = [disk EXCEPT ![cur_fn.spelling].exists = TRUE,
                         ![cur_fn.spelling].src = write_text(@, n, s)]

\* lines 228-291: src/<fn>.h
WriteHeader ==
    /\ pc = "header"
    /\ WriteSrc(h_name(cur_fn.spelling),
                Join(header_lines(cur_fn, used.used_static, tu_globals, headers_all), NL))
    /\ pc' = "impl"
    /\ UNCHANGED <<ws, build, lrun, ci, ki, hi, test_exists, out, lexit, startDisk, gen0, chained,
                   edits, runs>>

\* lines 293-359: src/<fn>.c
WriteImpl ==
    /\ pc = "impl"
    /\ WriteSrc(c_name(cur_fn.spelling),
                Join(impl_lines(cur_fn, used.used_globals, used.used_static, tu_globals,
                                read_text(ws)), NL))
    /\ pc' = IF headers_all = <<>> THEN "stub" ELSE "copy"
    /\ hi' = 1
    /\ UNCHANGED <<ws, build, lrun, ci, ki, test_exists, out, lexit, startDisk, gen0, chained, edits,
                   runs>>

\* lines 362-364: the cleaned copy of one discovered header
CopyHeader ==
    /\ pc = "copy"
    /\ LET h == headers_all[hi]
       IN  WriteSrc(name(h.path), remove_function_proto_from_header(h.text, cur_fn.spelling))
    /\ hi' = hi + 1
    /\ pc' = IF hi = Len(headers_all) THEN "stub" ELSE "copy"
    /\ UNCHANGED <<ws, build, lrun, ci, ki, test_exists, out, lexit, startDisk, gen0, chained, edits,
                   runs>>

\* lines 367-391: the stub test file, the report, the next function
Finish ==
    /\ pc = "stub"
    /\ LET fn_name == cur_fn.spelling
           pkg == disk[fn_name]
       IN  /\ disk' = IF stub_needed(test_exists)
                      THEN [disk EXCEPT ![fn_name].exists = TRUE,
                                        ![fn_name].test =
                                            write_text(@, test_name(fn_name),
                                                Join(test_c_lines(fn_name, headers_all), NL))]
                      ELSE disk
           /\ out' = Append(out, [kind |-> "OK", fn |-> fn_name])
           /\ gen0' = IF gen0[fn_name].present THEN gen0
                      ELSE [gen0 EXCEPT ![fn_name] = pkg.src]
    /\ Goto(next_loc(ci, ki + 1))
    /\ UNCHANGED <<ws, build, lrun, hi, test_exists, lexit, startDisk, chained, edits, runs>>

GenNext == StartRun \/ Classify \/ WriteHeader \/ WriteImpl \/ CopyHeader \/ Finish

(***************************************************************************)
(* unitTestsLauncher.py: the splice after the marker.                      *)
(***************************************************************************)
\* a variant of spliced that keeps the text before the marker only
spliced_before_marker(content, marker_index, new_content) ==
    SubSeq(content, 1, marker_index) \o <<"\n">> \o new_content \o <<"\n">>

\* modify_file_after_marker: the new content, given that the marker is at
\* offset marker_index
spliced(content, marker_index, new_content) ==
    SubSeq(content, 1, marker_index + Len(marker)) \o <<"\n">> \o new_content \o <<"\n">>

\* modify_file_after_marker on the directory holding the file n: the
\* directory afterwards and how the call ended
modify_file_after_marker(dir, n, new_content) ==
    IF ~dir.present \/ n \notin DOMAIN dir.files
    THEN [dir |-> dir, exit |-> "fatal"]
    ELSE LET content == dir.files[n]
             marker_index == find(content, marker)
         IN  IF marker_index = -1
             THEN [dir |-> dir, exit |-> "fatal"]
             ELSE [dir |-> write_text(dir, n, spliced(content, marker_index, new_content)),
                   exit |-> "ok"]

\* what find_and_extract_function returns for function p: a blank line, the
\* cleaned header and the body, as upstream has it when the launcher runs
ExtractedBodies(p) ==
    {<<"\n", "\n", "int", " ", p, "(void)", " ", "{", "\n", "  ", "return 0;", "\n", "}">>,
     <<"\n", "\n", "int", " ", p, "(void)", " ", "{", "\n", "  ", "return 1;", "\n", "}">>}

(***************************************************************************)
(* The launcher's commands.                                                *)
(***************************************************************************)
\* what subprocess.run does with the command: an exception, or a process
\* that ends with a return code (negative when a signal ended it)
Outcomes ==
    {[raised |-> "", returncode |-> r] : r \in (0 - MaxRc)..MaxRc}
    \cup {[raised |-> e, returncode |-> 0] :
            e \in {"FileNotFoundError", "PermissionError", "Exception"}}

\* a variant of run_cmd that raises on a failed check whatever stopScript is
run_cmd_check_raises(os, check, stopScript) ==
    LET returncode == CASE os.raised = "" -> os.returncode
                        [] os.raised = "FileNotFoundError" -> 127
                        [] os.raised = "PermissionError" -> 126
                        [] OTHER -> 1
    IN  IF os.raised # "" /\ stopScript
        THEN [ended |-> "exited", returncode |-> 1]
        ELSE IF check /\ returncode # 0
             THEN [ended |-> "raised", returncode |-> returncode]
             ELSE [ended |-> "returned", returncode |-> returncode]

\* run_cmd(cmd, check=check, stopScript=stopScript) of a list of strings,
\* subprocess.run doing os: how the call ends ("returned" a
\* CompletedProcess, "raised" CalledProcessError, or "exited" through
\* fatal) and the return code it carries
run_cmd(os, check, stopScript) ==
    LET returncode == CASE os.raised = "" -> os.returncode
                        [] os.raised = "FileNotFoundError" -> 127
                        [] os.raised = "PermissionError" -> 126
                        [] OTHER -> 1
    IN  IF os.raised # "" /\ stopScript
        THEN [ended |-> "exited", returncode |-> 1]
        ELSE IF check /\ returncode # 0 /\ stopScript
             THEN [ended |-> "raised", returncode |-> returncode]
             ELSE [ended |-> "returned", returncode |-> returncode]

\* the launcher before it processes a unit: pc is the step it is at (and,
\* once alive is FALSE, the step it exited at), cmd and os the unit's last
\* command and what the system did with it, p what run_cmd made of that, collected the
\* units whose results are in the report
NoLaunch ==
    [pc |-> "idle", alive |-> TRUE, unit |-> "", cmd |-> "none",
     os |-> [raised |-> "", returncode |-> 0],
     p |-> [ended |-> "returned", returncode |-> 0], collected |-> {}]

\* run_and_collect_results, lines 614-616: the splice and the copy to the
\* execution folder
Launch(u, body) ==
    /\ lrun.alive
    /\ lrun.pc = "idle"
    /\ u \notin lrun.collected
    /\ LET r == modify_file_after_marker(disk[u].src, c_name(u), body)
       IN  /\ disk' = [disk EXCEPT ![u].src = r.dir]
           /\ lexit' = r.exit
           /\ lrun' = [lrun EXCEPT !.unit = u, !.cmd = "none",
                                   !.pc = IF r.exit = "ok" THEN "clean" ELSE "splice",
                                   !.alive = (r.exit = "ok")]
    /\ UNCHANGED <<ws, build, pc, ci, ki, hi, test_exists, out, startDisk, gen0, chained, edits, runs>>

\* the launcher after run_cmd ended with r at step pc: a CompletedProcess
\* lets it go on to the step next; CalledProcessError is caught by main,
\* which calls fatal
stepped(l, cmd, os, r, next) ==
    [l EXCEPT !.cmd = cmd, !.os = os, !.p = r,
              !.pc = IF r.ended = "returned" THEN next ELSE @,
              !.alive = (r.ended = "returned")]

\* line 617: run_cmd(DOCKER_CLEAN, check=True)
RunClean(os) ==
    /\ lrun.alive
    /\ lrun.pc = "clean"
    /\ lrun' = stepped(lrun, "clean", os, run_cmd(os, TRUE, TRUE), "gcov")
    /\ UNCHANGED <<ws, build, disk, pc, ci, ki, hi, test_exists, out, lexit, startDisk, gen0, chained, edits, runs>>

\* line 618: run_cmd(DOCKER_BASE + ["ceedling", "gcov:all"], check=True,
\* stopScript=False)
RunGcov(os) ==
    /\ lrun.alive
    /\ lrun.pc = "gcov"
    /\ lrun' = stepped(lrun, "gcov", os, run_cmd(os, TRUE, FALSE), "collect")
    /\ UNCHANGED <<ws, build, disk, pc, ci, ki, hi, test_exists, out, lexit, startDisk, gen0, chained, edits, runs>>

\* lines 619-620: update_total_result_report and the copy of the build folder
Collect ==
    /\ lrun.alive
    /\ lrun.pc = "collect"
    /\ lrun' = [lrun EXCEPT !.collected = @ \cup {lrun.unit}, !.pc = "idle"]
    /\ UNCHANGED <<ws, build, disk, pc, ci, ki, hi, test_exists, out, lexit, startDisk, gen0, chained, edits, runs>>

(***************************************************************************)
(* swCmpBuildCheck.py: the build check.  Directories are paths below the   *)
(* repository root; a text is a sequence of chunks.                        *)
(***************************************************************************)
\* repo_root, the two places the script may live in, and two components,
\* one of them below a directory named build
ROOT == <<"repo">>

BuildDirs == {ROOT, <<"repo", "tools">>, <<"repo", "build">>, <<"repo", "compA">>,
              <<"repo", "build", "compB">>}

\* str.replace(old, new) on a text whose chunks are words
replace(text, old, new) == [i \in DOMAIN text |-> IF text[i] = old THEN new ELSE text[i]]

\* find_targets_with_subfolders(root, ("pltf", "cfg")): the directories of
\* the walk that hold one of the subfolders; subs[d] is the set of those d holds
find_targets_with_subfolders(subs) == {d \in DOMAIN subs : subs[d] \cap {"pltf", "cfg"} # {}}

\* scan_components: the targets it writes a CMakeLists.txt into, those
\* that are not inside a build directory
scan_components(subs) ==
    {d \in find_targets_with_subfolders(subs) : \A i \in DOMAIN d : d[i] # "build"}

\* the build check before its tree is chosen
NoBuild ==
    [pc |-> "idle", script_dir |-> ROOT, subs |-> [d \in BuildDirs |-> {}],
     cmake |-> <<>>, template0 |-> <<>>, template_content |-> <<>>, n |-> 0]

\* main, lines 467-479: preflight and the read of the template
BuildStart ==
    /\ build.pc = "idle"
    /\ build.n < MaxRuns
    /\ build.script_dir \in DOMAIN build.cmake
    /\ build' = [build EXCEPT !.pc = "copy", !.n = @ + 1,
                              !.template_content = build.cmake[build.script_dir]]
    /\ UNCHANGED <<ws, disk, pc, ci, ki, hi, test_exists, out, lexit, lrun, startDisk, gen0, chained, edits, runs>>

\* main, lines 481-483: copy_into_workspace of cfg and of pltf
BuildCopyIn ==
    /\ build.pc = "copy"
    /\ build' = [build EXCEPT !.pc = "scan",
                              !.subs[build.script_dir] = @ \cup build.subs[ROOT]]
    /\ UNCHANGED <<ws, disk, pc, ci, ki, hi, test_exists, out, lexit, lrun, startDisk, gen0, chained, edits, runs>>

\* main, line 487: scan_components writes a CMakeLists.txt into every
\* target, and exits when it wrote none
BuildScan ==
    /\ build.pc = "scan"
    /\ LET created == scan_components(build.subs)
       IN  build' = [build EXCEPT
                       !.pc = IF created = {} THEN "idle" ELSE "docker",
                       !.cmake = [d \in DOMAIN build.cmake \cup created |->
                                    IF d \in created
                                    THEN replace(build.template_content, "projectName",
                                                 name(d))
                                    ELSE build.cmake[d]]]
    /\ UNCHANGED <<ws, disk, pc, ci, ki, hi, test_exists, out, lexit, lrun, startDisk, gen0, chained, edits, runs>>

\* main, lines 488-490: build_and_run_docker runs two commands with
\* check=True; a command that fails ends the build check through fatal
BuildDocker(os1, os2) ==
    /\ build.pc = "docker"
    /\ LET ok == /\ run_cmd(os1, TRUE, TRUE).ended = "returned"
                 /\ run_cmd(os2, TRUE, TRUE).ended = "returned"
       IN  build' = [build EXCEPT !.pc = IF ok THEN "cleanup" ELSE "idle"]
    /\ UNCHANGED <<ws, disk, pc, ci, ki, hi, test_exists, out, lexit, lrun, startDisk, gen0, chained, edits, runs>>

\* main, lines 492-508: the reports, and delete_cfg_and_pltf(script_dir)
BuildCleanup ==
    /\ build.pc = "cleanup"
    /\ build' = [build EXCEPT !.pc = "idle", !.subs[build.script_dir] = {}]
    /\ UNCHANGED <<ws, disk, pc, ci, ki, hi, test_exists, out, lexit, lrun, startDisk, gen0, chained, edits, runs>>

(***************************************************************************)
(* What happens between runs: the launcher's splice and manual edits.      *)
(***************************************************************************)
Between == ~Running /\ edits < MaxEdits

Touched ==
    /\ edits' = edits + 1
    /\ pc' = "idle"
    /\ UNCHANGED <<ws, build, lrun, ci, ki, hi, test_exists, out, startDisk, gen0, chained, runs>>

\* update_unit_under_test
Splice(p, body) ==
    /\ Between
    /\ LET r == modify_file_after_marker(disk[p].src, c_name(p), body)
       IN  /\ disk' = [disk EXCEPT ![p].src = r.dir]
           /\ lexit' = r.exit
    /\ Touched

\* somebody writes the test file
EditTest(p) ==
    /\ Between
    /\ disk[p].test.present
    /\ disk' = [disk EXCEPT ![p].test =
                  write_text(@, test_name(p), <<"void test_", p, "(void) { /* edited */ }">>)]
    /\ lexit' = lexit
    /\ Touched

\* somebody removes test/
RemoveTest(p) ==
    /\ Between
    /\ disk[p].test.present
    /\ disk' = [disk EXCEPT ![p].test = NoDir]
    /\ lexit' = lexit
    /\ Touched

\* somebody empties src/
EmptySrc(p) ==
    /\ Between
    /\ has_entries(disk[p].src)
    /\ disk' = [disk EXCEPT ![p].src.files = <<>>]
    /\ lexit' = lexit
    /\ Touched

\* somebody removes src/
RemoveSrc(p) ==
    /\ Between
    /\ disk[p].src.present
    /\ disk' = [disk EXCEPT ![p].src = NoDir]
    /\ lexit' = lexit
    /\ Touched

\* somebody removes the package
RemovePkg(p) ==
    /\ Between
    /\ disk[p].exists
    /\ disk' = [disk EXCEPT ![p] = NoPkg]
    /\ lexit' = lexit
    /\ Touched

\* somebody puts a file of their own into src/
AddToSrc(p) ==
    /\ Between
    /\ disk[p].src.present
    /\ <<"notes", ".txt">> \notin DOMAIN disk[p].src.files
    /\ disk' = [disk EXCEPT ![p].src = write_text(@, <<"notes", ".txt">>, <<"notes">>)]
    /\ lexit' = lexit
    /\ Touched

\* a variant of Interrupt that puts the packages back as they were when
\* the run began
Interrupt_rolls_back ==
    /\ Running
    /\ edits < MaxEdits
    /\ disk' = startDisk
    /\ lexit' = lexit
    /\ Touched

\* the run is interrupted, or a write fails: it stops where it is
Interrupt ==
    /\ Running
    /\ edits < MaxEdits
    /\ UNCHANGED <<disk, lexit>>
    /\ Touched

Init ==
    /\ ws \in Workspaces
    /\ disk = [p \in Pkgs |-> NoPkg]
    /\ pc = "idle"
    /\ ci = 0
    /\ ki = 0
    /\ hi = 0
    /\ test_exists = FALSE
    /\ out = <<>>
    /\ lexit = "none"
    /\ lrun = NoLaunch
    /\ build = NoBuild
    /\ startDisk = [p \in Pkgs |-> NoPkg]
    /\ gen0 = [p \in Pkgs |-> NoDir]
    /\ chained = FALSE
    /\ edits = 0
    /\ runs = 0

Next ==
    \/ GenNext
    \/ \E p \in Pkgs : \E body \in ExtractedBodies(p) : Splice(p, body)
    \/ \E p \in Pkgs : EditTest(p)
    \/ \E p \in Pkgs : RemoveTest(p)
    \/ \E p \in Pkgs : EmptySrc(p)
    \/ \E p \in Pkgs : RemoveSrc(p)
    \/ \E p \in Pkgs : RemovePkg(p)
    \/ \E p \in Pkgs : AddToSrc(p)
    \/ Interrupt

Spec == Init /\ [][Next]_vars

(***************************************************************************)
(* SpecRuns: generator runs alone, each of which may be interrupted        *)
(* between two writes; nobody else touches the packages.                   *)
(***************************************************************************)
NextRuns ==
    \/ GenNext
    \/ Interrupt

SpecRuns == Init /\ [][NextRuns]_vars

(***************************************************************************)
(* SpecSynth: one tree per choice of the file-scope variables that f       *)
(* uses, in any declaration order, with and without a discovered header;   *)
(* the generator alone runs.                                               *)
(***************************************************************************)
Injective(q) == \A i, j \in DOMAIN q : q[i] = q[j] => i = j

VarSeqs ==
    {q \in UNION {[1..k -> {v.spelling : v \in Statics \cup Globals}] : k \in 0..MaxUsed} :
        Injective(q)}

\* the layouts of lay.h: up to MaxHdrLines lines
ProtoLayouts ==
    {Layout(q) : q \in UNION {[1..k -> DOMAIN ProtoLines] : k \in 1..MaxHdrLines}}

\* the trees the scanner is tried on: any headers, with and without b.c,
\* with and without each scan root
ScanTrees ==
    {Rooted(Choice(hs, <<>>, b), roots) :
        hs \in SUBSET {"x", "x2", "t", "d", "pkg"}, b \in BOOLEAN, roots \in SUBSET {PLTF, CFG}}

SynthWorkspaces ==
    {Choice(hs, vs, FALSE) : vs \in VarSeqs, hs \in {{}, {"x"}}}
    \cup ProtoLayouts \cup ScanTrees

InitSynth ==
    /\ ws \in SynthWorkspaces
    /\ disk = [p \in Pkgs |-> NoPkg]
    /\ pc = "idle"
    /\ ci = 0
    /\ ki = 0
    /\ hi = 0
    /\ test_exists = FALSE
    /\ out = <<>>
    /\ lexit = "none"
    /\ lrun = NoLaunch
    /\ build = NoBuild
    /\ startDisk = [p \in Pkgs |-> NoPkg]
    /\ gen0 = [p \in Pkgs |-> NoDir]
    /\ chained = FALSE
    /\ edits = 0
    /\ runs = 0

SpecSynth == InitSynth /\ [][GenNext]_vars

(***************************************************************************)
(* SpecSplice: the launcher's splice applied, again and again, to a file   *)
(* src/f.c of arbitrary content.                                           *)
(***************************************************************************)
SpliceAlphabet == {"/", "* FUNCTION TO TEST *", "x", "\n"}

SpliceTexts == UNION {[1..k -> SpliceAlphabet] : k \in 0..MaxContentLen}

\* the bodies spliced in: the extracted ones, and bodies that hold the
\* marker or a piece of it
SpliceBodies == ExtractedBodies("f") \cup {marker, <<"/">>, <<>>}

InitSplice ==
    /\ ws \in {Choice({}, <<>>, FALSE)}
    /\ \E c \in SpliceTexts :
         disk = [p \in Pkgs |->
                   IF p = "f"
                   THEN [exists |-> TRUE, test |-> NoDir,
                         src |-> write_text(NoDir, c_name("f"), c)]
                   ELSE NoPkg]
    /\ pc = "idle"
    /\ ci = 0
    /\ ki = 0
    /\ hi = 0
    /\ test_exists = FALSE
    /\ out = <<>>
    /\ lexit = "none"
    /\ lrun = NoLaunch
    /\ build = NoBuild
    /\ startDisk = [p \in Pkgs |-> NoPkg]
    /\ gen0 = [p \in Pkgs |-> NoDir]
    /\ chained = FALSE
    /\ edits = 0
    /\ runs = 0

NextSplice == \E body \in SpliceBodies : Splice("f", body)

SpecSplice == InitSplice /\ [][NextSplice]_vars

(***************************************************************************)
(* SpecLaunch: the launcher processes the units, each test file holding    *)
(* the marker or not, every command ending in every way.                   *)
(***************************************************************************)
InitLaunch ==
    /\ ws \in {Choice({}, <<>>, FALSE)}
    /\ \E c \in [Pkgs -> {marker \o <<"\n">>, <<"x">>}] :
         disk = [u \in Pkgs |->
                   [exists |-> TRUE, test |-> NoDir,
                    src |-> write_text(NoDir, c_name(u), c[u])]]
    /\ pc = "idle"
    /\ ci = 0
    /\ ki = 0
    /\ hi = 0
    /\ test_exists = FALSE
    /\ out = <<>>
    /\ lexit = "none"
    /\ lrun = NoLaunch
    /\ build = NoBuild
    /\ startDisk = [p \in Pkgs |-> NoPkg]
    /\ gen0 = [p \in Pkgs |-> NoDir]
    /\ chained = FALSE
    /\ edits = 0
    /\ runs = 0

NextLaunch ==
    \/ \E u \in Pkgs : \E body \in ExtractedBodies(u) : Launch(u, body)
    \/ \E os \in Outcomes : RunClean(os)
    \/ \E os \in Outcomes : RunGcov(os)
    \/ Collect

SpecLaunch == InitLaunch /\ [][NextLaunch]_vars

(***************************************************************************)
(* SpecBuild: runs of the build check, over every choice of where the      *)
(* script lives, which of cfg and pltf the repository root and component   *)
(* A hold, and the template's text.                                        *)
(***************************************************************************)
Templates ==
    {<<"project(", "projectName", ")">>,
     <<"project(", "projectName", ")", "\n", "add_library(", "projectName", ")">>}

InitBuild ==
    /\ ws \in {Choice({}, <<>>, FALSE)}
    /\ disk = [p \in Pkgs |-> NoPkg]
    /\ pc = "idle"
    /\ ci = 0
    /\ ki = 0
    /\ hi = 0
    /\ test_exists = FALSE
    /\ out = <<>>
    /\ lexit = "none"
    /\ lrun = NoLaunch
    /\ \E s \in {<<"repo", "tools">>, <<"repo", "build">>}, t \in Templates,
          rs \in SUBSET {"pltf", "cfg"}, as \in SUBSET {"pltf", "cfg"} :
         build = [NoBuild EXCEPT !.script_dir = s, !.cmake = (s :> t), !.template0 = t,
                                 !.subs = [d \in BuildDirs |->
                                             CASE d = ROOT -> rs
                                               [] d = <<"repo", "compA">> -> as
                                               [] d = <<"repo", "build", "compB">> -> {"cfg"}
                                               [] OTHER -> {}]]
    /\ startDisk = [p \in Pkgs |-> NoPkg]
    /\ gen0 = [p \in Pkgs |-> NoDir]
    /\ chained = FALSE
    /\ edits = 0
    /\ runs = 0

NextBuild ==
    \/ BuildStart
    \/ BuildCopyIn
    \/ BuildScan
    \/ \E os1, os2 \in Outcomes : BuildDocker(os1, os2)
    \/ BuildCleanup

SpecBuild == InitBuild /\ [][NextBuild]_vars

(***************************************************************************)
(* What the properties below speak of.                                     *)
(***************************************************************************)
SrcNonEmpty(pkg) == pkg.src.present /\ has_entries(pkg.src)

\* the generator has just completed the population of package p
JustGenerated(p) ==
    /\ pc \in {"fn", "done"}
    /\ out # <<>>
    /\ out[Len(out)] = [kind |-> "OK", fn |-> p]

\* where the scanned files define a function named p
DefLocs(p) ==
    {loc \in {<<c, k>> : c \in DOMAIN c_files, k \in 1..8} :
        /\ loc[2] \in DOMAIN c_files[loc[1]].children
        /\ is_candidate(c_files[loc[1]].children[loc[2]], c_files[loc[1]].path)
        /\ c_files[loc[1]].children[loc[2]].spelling = p}

HeaderTextAt(loc) ==
    LET cf == c_files[loc[1]]
        fn == cf.children[loc[2]]
        tg == collect_tu_globals(cf.children)
    IN  Join(header_lines(fn, analyze_function(fn, tg).used_static, tg, headers_all), NL)

ImplTextAt(loc) ==
    LET cf == c_files[loc[1]]
        fn == cf.children[loc[2]]
        tg == collect_tu_globals(cf.children)
        u == analyze_function(fn, tg)
    IN  Join(impl_lines(fn, u.used_globals, u.used_static, tg, read_text(ws)), NL)

HeaderNames == {name(headers_all[i].path) : i \in DOMAIN headers_all}

\* the file-scope variables the current function refers to, as the file
\* declares them: the first function of a file uses all of them
UsedVars ==
    IF cur_fn.spelling = "f"
    THEN {cur_file.children[j] : j \in {i \in DOMAIN cur_file.children :
                                          cur_file.children[i].kind = "VAR_DECL"}}
    ELSE {}

UsedStatics == {v \in UsedVars : v.storage_class = "STATIC"}

\* the declaration of v as its line of the file that declares it has it,
\* ";" included
DeclLine(v) == LinesOf(read_text(ws)[v.file])[v.extent.start.line]

\* the definition of f as the .c file has it
FnSource(f) == SubSeq(FnLines(f), 1, Len(FnLines(f)) - 1)

CurSrc == disk[cur_fn.spelling].src.files

\* the lines of a generated header that declare accessors
AccessorDecls(text) ==
    {l \in Range(LinesOf(text)) :
        /\ l # <<>>
        /\ l[1] \notin {"#ifndef TEST_", "#define TEST_", "#include \"", "#include <stddef.h>",
                        "#include <string.h>", "#endif /* TEST_"}
        /\ l # function_prototype(cur_fn)}

\* the accessor table: the prototypes of a used static variable
TableDecls(v) ==
    LET E == v.type.elem
        T == v.type.spelling
        n == v.spelling
        isArray == v.type.kind \in {"CONSTANTARRAY", "INCOMPLETEARRAY"}
        known == v.type.kind = "CONSTANTARRAY"
        const == v.type.const
    IN  IF isArray
        THEN {(IF const THEN <<"const ">> ELSE <<>>) \o <<E, "* get_", n, "_ptr(void);">>,
              <<"size_t get_", n, "_size(void);">>}
             \cup (IF ~const /\ known
                   THEN {<<"void set_", n, "(const ", E, "* src, size_t n);">>} ELSE {})
        ELSE {<<T, " get_", n, "(void);">>}
             \cup (IF ~const THEN {<<"void set_", n, "(", T, " val);">>} ELSE {})

UsedGlobals == UsedVars \ UsedStatics

\* whether text c holds the head of a getter, size query or setter of vname
HasAccessor(c, vname) ==
    \E k \in 1..(Len(c) - 1) :
        /\ c[k + 1] = vname
        /\ c[k] \in {"* get_", " get_", "size_t get_", "void set_"}

\* how many lines of text c are the line l
LineCount(c, l) == Cardinality({i \in DOMAIN LinesOf(c) : LinesOf(c)[i] = l})

\* whether the tokens of t from index k on are a prototype of fname: the
\* name, a parameter list without ";" and "{", and ";"
ProtoAt(t, fname, k) ==
    /\ t[k] = fname
    /\ LET p == SkipWs(t, k + 1)
       IN  /\ p <= Len(t)
           /\ t[p] = "("
           /\ \E q \in (p + 1)..Len(t) :
                 /\ t[q] = ";"
                 /\ \A j \in (p + 1)..(q - 1) : t[j] \notin {";", "{"}
                 /\ \E r \in (p + 1)..(q - 1) :
                       /\ t[r] = ")"
                       /\ \A j \in (r + 1)..(q - 1) : IsSpace(t[j])

\* whether text t holds a prototype of fname
HasProto(t, fname) == \E k \in DOMAIN t : ProtoAt(t, fname, k)

\* the copy of y.h in the package of the current function
LayCopy == CurSrc[<<"y", ".h">>]

\* the regular files of tree w with the extension ext under one of the
\* roots, none of whose directories is named like a package
Listable(w, roots, ext) ==
    {e \in w.files :
        /\ e.is_file
        /\ endswith(name(e.path), ext)
        /\ \E i \in DOMAIN roots : roots[i] \in w.dirs /\ Under(roots[i], e.path)
        /\ \A i \in 1..(Len(e.path) - 1) : ~startswith_TEST(e.path[i])}

\* whether the list lst holds exactly the entries of S, each once, in
\* ascending path order
IsListing(lst, S) ==
    /\ Range(lst) = S
    /\ \A i, j \in DOMAIN lst : i < j => lst[i].rank < lst[j].rank

\* the entries of lst that lie under a scan root of the tree
UnderExisting(lst) == SelectSeq(lst, LAMBDA e : \E r \in ws.roots : Under(r, e.path))

\* the tree of the run, were every scan root there
FullTree == Tree(Rooted(ws, {PLTF, CFG}))

\* the definition of p in the file that is first in path order
FirstDef(p) ==
    CHOOSE loc \in DefLocs(p) :
        \A o \in DefLocs(p) : c_files[loc[1]].rank <= c_files[o[1]].rank

\* the reports of the run about function p, in order
ReportsOf(p) == SelectSeq(out, LAMBDA r : r.fn = p)

RECURSIVE DefsFrom(_, _)
\* the names of the functions defined in the scanned files, from child k of
\* file c on, in the order of the files and of their text
DefsFrom(c, k) ==
    IF c > Len(c_files) THEN <<>>
    ELSE IF k > Len(c_files[c].children) THEN DefsFrom(c + 1, 1)
    ELSE (IF /\ c_files[c].children[k].kind = "FUNCTION_DECL"
             /\ c_files[c].children[k].is_definition
             /\ c_files[c].children[k].file = c_files[c].path
          THEN <<c_files[c].children[k].spelling>> ELSE <<>>)
         \o DefsFrom(c, k + 1)

\* the used static arrays that are not const and have a known count
MutableKnown == {v \in UsedStatics : v.type.kind = "CONSTANTARRAY" /\ ~v.type.const}

\* the names of the variables of the model in ascending (string) order
NameOrder == <<"arr", "aux", "buf", "count", "ctbl", "garr", "gv", "k", "tbl">>

\* whether the name of u sorts before the name of v
NameBefore(u, v) ==
    \E i, j \in DOMAIN NameOrder :
        i < j /\ NameOrder[i] = u.spelling /\ NameOrder[j] = v.spelling

\* where text c holds the head of an accessor of v
AccessorsAt(c, v) ==
    {k \in 1..(Len(c) - 1) :
        c[k + 1] = v.spelling /\ c[k] \in {"* get_", " get_", "size_t get_", "void set_"}}

(***************************************************************************)
(* What the synthesized C does: the accessor bodies of lines 335 and       *)
(* 342-345, read back from the text of src/<fn>.c.                         *)
(***************************************************************************)
\* the number a decimal literal of the text stands for, -1 if it is none
int_of(s) == IF \E k \in 0..64 : ToString(k) = s THEN CHOOSE k \in 0..64 : ToString(k) = s ELSE -1

\* the chunks of text c that follow the first occurrence of pat
after(c, pat) ==
    LET i == find(c, pat)
    IN  IF i = -1 THEN <<>> ELSE SubSeq(c, i + Len(pat) + 1, Len(c))

\* what get_<vname>_size of the text c returns, -1 if c has no such
\* definition with a cast literal
c_size_query(c, vname) ==
    LET rest == after(c, <<"size_t get_", vname, "_size(void) { return (size_t)">>)
    IN  IF Len(rest) >= 2 /\ rest[2] = "; }" THEN int_of(rest[1]) ELSE -1

\* what set_<vname>(src, n) of the text c does: m is n when n is below
\* the first literal and the second literal otherwise, and memcpy copies
\* m elements of the sizeof type into its first argument
c_setter(c, vname, n) ==
    LET b == after(c, <<"void set_", vname, "(const ">>)
    IN  IF /\ Len(b) >= 17
           /\ <<b[2], b[3], b[4]>> = <<"* src, size_t n) {", "\n", "    size_t m = (n < (size_t)">>
           /\ <<b[6], b[8], b[9], b[10]>> = <<") ? n : (size_t)", ";", "\n", "    memcpy(">>
           /\ <<b[12], b[14], b[15], b[16]>> = <<", src, m * sizeof(", "));", "\n", "}">>
        THEN [defined |-> TRUE, dst |-> b[11], elem |-> b[13],
              m |-> IF n < int_of(b[5]) THEN n ELSE int_of(b[7])]
        ELSE [defined |-> FALSE, dst |-> "", elem |-> "", m |-> -1]

(***************************************************************************)
(* The properties.                                                         *)
(***************************************************************************)

\* C1: a run that finds TEST_F with a src/ holding at least one entry
\* writes nothing for F: throughout the run and at its end the package is
\* what it was when the run began, whatever the entries of src/ are.
C1_SkipWritesNothing ==
    \A p \in Pkgs :
        (pc # "idle" /\ SrcNonEmpty(startDisk[p])) => disk[p] = startDisk[p]

\* C1 witness: a completed run skipped f, whose src/ held a spliced f.c
C1_Witness ==
    /\ pc = "done"
    /\ lexit = "ok"
    /\ SrcNonEmpty(startDisk["f"])
    /\ \E i \in DOMAIN out : out[i] = [kind |-> "SKIP", fn |-> "f"]

\* C2: a step of a run that began with test/ existing leaves test/ as it
\* is, and a step of a run changes the files of test/ only in a package
\* that did not exist when the run began (the run creates it).
C2_TestWrittenOnce ==
    [][Running =>
        \A p \in Pkgs :
            /\ startDisk[p].test.present => disk'[p].test = disk[p].test
            /\ disk'[p].test.files # disk[p].test.files =>
                   (~startDisk[p].exists /\ disk'[p].exists)]_vars

\* C2 witness: a run repopulated the emptied src/ of f beside an edited test
C2_Witness ==
    /\ JustGenerated("f")
    /\ startDisk["f"].test.present
    /\ test_name("f") \in DOMAIN disk["f"].test.files
    /\ disk["f"].test.files[test_name("f")] = <<"void test_", "f", "(void) { /* edited */ }">>

\* C3: after the population of a package that did not exist, test/ and
\* src/ exist, test/ holds the stub, and src/ holds the generated F.h, the
\* generated F.c and, for every discovered header, its cleaned copy.
C3_AbsentFullyPopulated ==
    \A p \in Pkgs :
        (JustGenerated(p) /\ ~test_exists) =>
            /\ disk[p].test.present
            /\ disk[p].src.present
            /\ test_name(p) \in DOMAIN disk[p].test.files
            /\ disk[p].test.files[test_name(p)] = Join(test_c_lines(p, headers_all), NL)
            /\ SrcNonEmpty(disk[p])
            /\ {h_name(p), c_name(p)} \subseteq DOMAIN disk[p].src.files
            /\ \E loc \in DefLocs(p) :
                  /\ disk[p].src.files[h_name(p)] = HeaderTextAt(loc)
                  /\ disk[p].src.files[c_name(p)] = ImplTextAt(loc)
            /\ \A i \in DOMAIN headers_all :
                  /\ name(headers_all[i].path) \in DOMAIN disk[p].src.files
                  /\ disk[p].src.files[name(headers_all[i].path)]
                       = remove_function_proto_from_header(headers_all[i].text, p)

C5_SecondRunSkips ==
    (pc = "done" /\ chained) =>
        /\ disk = startDisk
        /\ \A i \in DOMAIN out : out[i].kind = "SKIP"

\* C5 witness: two runs in a row, the first having generated f and g
C5_Witness ==
    /\ pc = "done"
    /\ chained
    /\ runs = 2
    /\ edits = 0
    /\ {out[i].fn : i \in DOMAIN out} = {"f", "g"}

\* C6: when src/ is populated again in a package that exists, it holds the
\* same files with the same contents as after its first completed
\* population, and test/ is what it was when the run began.
C6_RegenerationIdentical ==
    \A p \in Pkgs :
        (JustGenerated(p) /\ test_exists /\ gen0[p].present) =>
            /\ disk[p].src.files = gen0[p].files
            /\ disk[p].test = startDisk[p].test

\* C6 witness: f was generated, its src/ emptied, and a second run
\* repopulated it beside the stub of the first
C6_Witness ==
    /\ JustGenerated("f")
    /\ test_exists
    /\ runs = 2
    /\ startDisk["f"].src.present
    /\ ~has_entries(startDisk["f"].src)
    /\ test_name("f") \in DOMAIN startDisk["f"].test.files
    /\ has_entries(gen0["f"])

\* C7: the F.c just written holds the marker; the include of F.h, the
\* declaration of every used variable and the accessors of every used
\* static come before it; after it come a line end and the definition of
\* F as the .c file has it, and nothing else.
C7_MarkerThenFunction ==
    pc \in {"copy", "stub"} =>
        LET f == cur_fn.spelling
            c == CurSrc[c_name(f)]
            i == find(c, marker)
            pre == SubSeq(c, 1, i)
            post == SubSeq(c, i + Len(marker) + 1, Len(c))
        IN  /\ i # -1
            /\ post = <<"\n">> \o FnSource(f)
            /\ find(pre, <<"#include \"", f, ".h", "\"">>) = 0
            /\ \A v \in UsedVars : find(pre, DeclLine(v)) # -1
            /\ \A v \in UsedStatics :
                  \E k \in 1..(Len(pre) - 1) :
                      pre[k] \in {"* get_", " get_"} /\ pre[k + 1] = v.spelling

\* C7 witness: f.c was written for a function using a global and a static
C7_Witness ==
    /\ pc = "stub"
    /\ cur_fn.spelling = "f"
    /\ UsedStatics # {}
    /\ UsedVars # UsedStatics

\* C8: a step of the launcher's splice either ends fatal and leaves the
\* file alone (no marker), or keeps the text up to and including the first
\* marker, puts a line end, the body and a line end after it, leaves the
\* first marker where it was, and a second splice of the same body would
\* change nothing.
C8_SpliceKeepsPrefix ==
    [][\E body \in SpliceBodies :
          LET n == c_name("f")
              c == disk["f"].src.files[n]
              c2 == disk'["f"].src.files[n]
              i == find(c, marker)
              keep == i + Len(marker)
              again == modify_file_after_marker(disk'["f"].src, n, body)
          IN  IF i = -1
              THEN lexit' = "fatal" /\ disk' = disk
              ELSE /\ lexit' = "ok"
                   /\ Len(c2) >= keep
                   /\ SubSeq(c2, 1, keep) = SubSeq(c, 1, keep)
                   /\ SubSeq(c2, keep + 1, Len(c2)) = <<"\n">> \o body \o <<"\n">>
                   /\ find(c2, marker) = i
                   /\ again.exit = "ok"
                   /\ again.dir = disk'["f"].src]_vars

\* C8 witness: the splice was applied twice to a file that had text before
\* and after its marker
C8_Witness ==
    /\ lexit = "ok"
    /\ edits = 2
    /\ find(disk["f"].src.files[c_name("f")], marker) > 0

C10_UnknownCountSizeQuery ==
    pc \in {"copy", "stub"} =>
        \A v \in UsedStatics :
            v.type.kind = "INCOMPLETEARRAY" =>
                /\ <<"size_t get_", v.spelling, "_size(void) { return 0; }">>
                       \in Range(LinesOf(CurSrc[c_name(cur_fn.spelling)]))
                /\ \A n \in {h_name(cur_fn.spelling), c_name(cur_fn.spelling)} :
                       \A l \in Range(LinesOf(CurSrc[n])) :
                           ~(Len(l) >= 2 /\ l[1] = "void set_" /\ l[2] = v.spelling)

\* C11: for a used static array that is not const and has a known count,
\* the size query of the F.c just written returns that count, and its
\* setter, called with any n, copies min(n, count) elements of the
\* element type into the variable: never more than count.
C11_SetterCopiesMin ==
    pc \in {"copy", "stub"} =>
        \A v \in MutableKnown :
            LET c == CurSrc[c_name(cur_fn.spelling)]
            IN  /\ c_size_query(c, v.spelling) = v.type.count
                /\ \A n \in 0..MaxN :
                      LET r == c_setter(c, v.spelling, n)
                      IN  /\ r.defined
                          /\ r.dst = v.spelling
                          /\ r.elem = v.type.elem
                          /\ r.m = (IF n < v.type.count THEN n ELSE v.type.count)
                          /\ r.m <= v.type.count

\* C11 witness: F.c was written for a function using arr[4], and MaxN is
\* above the count, so the setter is called with n below, at and above it
C11_Witness ==
    /\ pc = "stub"
    /\ \E v \in MutableKnown : v.type.count < MaxN /\ v.type.count > 0

\* C12: for a function whose used globals and used statics are both
\* empty, the F.h just written declares no accessor and holds the
\* function's prototype, and the F.c just written is its three includes, an
\* empty line, the marker and the definition of the function, nothing else.
C12_NoDependencyNoBlock ==
    (pc \in {"impl", "copy", "stub"} /\ used.used_globals = {} /\ used.used_static = {}) =>
        LET f == cur_fn.spelling
        IN  /\ AccessorDecls(CurSrc[h_name(f)]) = {}
            /\ function_prototype(cur_fn) \in Range(LinesOf(CurSrc[h_name(f)]))
            /\ pc # "impl" =>
                   CurSrc[c_name(f)]
                     = Join(<<<<"#include \"", f, ".h", "\"">>, <<"#include <stddef.h>">>,
                              <<"#include <string.h>">>, <<>>, marker>>, NL)
                       \o NL \o FnSource(f)

\* C12 witness: F.c was written for g, which uses no variable, from a
\* file that declares two
C12_Witness ==
    /\ pc = "stub"
    /\ cur_fn.spelling = "g"
    /\ used.used_globals = {} /\ used.used_static = {}
    /\ Len(ws.vs) = 2

\* C13: for a used global variable, neither the F.h nor the F.c just
\* written holds a getter, a size query or a setter of it, and exactly one
\* line of F.c is its declaration as the .c file has it, ";" at the end.
C13_GlobalCopiedOnce ==
    pc \in {"copy", "stub"} =>
        \A v \in UsedGlobals :
            LET f == cur_fn.spelling
            IN  /\ ~HasAccessor(CurSrc[h_name(f)], v.spelling)
                /\ ~HasAccessor(CurSrc[c_name(f)], v.spelling)
                /\ endswith(DeclLine(v), ";")
                /\ LineCount(CurSrc[c_name(f)], DeclLine(v)) = 1

\* C13 witness: F.c was written for a function using a global array
\* beside a static one
C13_Witness ==
    /\ pc = "stub"
    /\ \E v \in UsedGlobals : v.type.kind = "CONSTANTARRAY"
    /\ \E v \in UsedStatics : v.type.kind = "CONSTANTARRAY"

\* C14: the copy of a discovered header just written into the package of
\* F holds no prototype of F, however the header lays the prototype out.
C14_NoPrototypeInCopy ==
    (pc = "stub" /\ ws.lay # <<>>) => ~HasProto(LayCopy, cur_fn.spelling)

\* C15: the headers and the .c files a run works on are exactly the
\* regular .h and .c files under the scan roots that have no directory
\* named like a package above them, each once, in ascending path order.
C15_ScanListsExactly ==
    pc # "idle" =>
        /\ IsListing(headers_all, Listable(Tree(ws), scan_roots, ".h"))
        /\ IsListing(c_files, Listable(Tree(ws), scan_roots, ".c"))

\* C16: the lists a run works on are those of the tree with every scan
\* root there, less the files under the roots that are missing; and a run
\* on a tree with no scan root ends at once, with no report and with
\* nothing written.
C16_MissingRootIsEmpty ==
    pc # "idle" =>
        /\ headers_all = UnderExisting(list_headers(FullTree, scan_roots))
        /\ c_files = UnderExisting(list_c_files(FullTree, scan_roots))
        /\ ws.roots = {} =>
               /\ pc = "done"
               /\ out = <<>>
               /\ disk = [p \in Pkgs |-> NoPkg]

\* C16 witness: a run has ended on a tree without pltf/ that has files
\* under cfg/, and the files of cfg/ were worked on
C16_Witness ==
    /\ pc = "done"
    /\ ws.roots = {CFG}
    /\ headers_all # <<>>
    /\ c_files # <<>>
    /\ out # <<>>

\* C17: in a first run into an empty output, on a tree where two files
\* define p, once the population of p is reported the package of p holds
\* the F.h and F.c of the definition in the file that is first in path
\* order, and it still does at the end of the run, when the reports about p
\* are one [OK] followed by one [SKIP].
C17_OnePackagePerName ==
    \A p \in Pkgs :
        (/\ runs = 1 /\ edits = 0 /\ pc \in {"fn", "done"}
         /\ Cardinality(DefLocs(p)) = 2
         /\ ReportsOf(p) # <<>>) =>
            /\ disk[p].src.files[c_name(p)] = ImplTextAt(FirstDef(p))
            /\ disk[p].src.files[h_name(p)] = HeaderTextAt(FirstDef(p))
            /\ ReportsOf(p)[1].kind = "OK"
            /\ \A i \in 2..Len(ReportsOf(p)) : ReportsOf(p)[i].kind = "SKIP"
            /\ pc = "done" => Len(ReportsOf(p)) = 2

\* C17 witness: the run has ended on the tree where b.c and a.c define f,
\* the f of a.c using a static that the f of b.c does not
C17_Witness ==
    /\ pc = "done" /\ runs = 1 /\ edits = 0
    /\ Cardinality(DefLocs("f")) = 2
    /\ \E a, b \in DefLocs("f") : ImplTextAt(a) # ImplTextAt(b)

\* C18: at the end of a run the reports are one per function definition
\* of the scanned files, in the order of the definitions, each an [OK] or
\* a [SKIP]; and during a run the reports are those of the definitions
\* before the current one.
C18_OneOutcomeEach ==
    /\ pc = "done" =>
           /\ Len(out) = Len(DefsFrom(1, 1))
           /\ \A i \in DOMAIN out :
                 out[i].fn = DefsFrom(1, 1)[i] /\ out[i].kind \in {"OK", "SKIP"}
    /\ Running => Len(out) < Len(DefsFrom(1, 1)) /\ Len(out) + Len(DefsFrom(ci, ki)) = Len(DefsFrom(1, 1))

\* C18 witness: a run has ended that skipped a function and populated the
\* package of a function after it
C18_Witness ==
    /\ pc = "done"
    /\ \E i, j \in DOMAIN out : i < j /\ out[i].kind = "SKIP" /\ out[j].kind = "OK"

\* C19: run_cmd called with stopScript=False never raises and never exits:
\* whatever the system does with the command, with and without check, it
\* returns a CompletedProcess, and when the command could not be started or
\* ended with a non-zero code the returncode it carries is non-zero; so
\* after the gcov run the launcher is alive and collects the unit's results.
C19_StopScriptFalseReturns ==
    /\ \A os \in Outcomes, check \in BOOLEAN :
         LET p == run_cmd(os, check, FALSE)
         IN  /\ p.ended = "returned"
             /\ (os.raised # "" \/ os.returncode # 0) => p.returncode # 0
    /\ lrun.cmd = "gcov" =>
         /\ lrun.alive
         /\ lrun.p.ended = "returned"
         /\ (lrun.os.raised # "" \/ lrun.os.returncode # 0) => lrun.p.returncode # 0
         /\ \/ lrun.pc = "collect"
            \/ lrun.pc = "idle" /\ lrun.unit \in lrun.collected

\* the test run could not be started, and the results were collected
C19_Witness ==
    /\ lrun.cmd = "gcov"
    /\ lrun.os.raised = "PermissionError"
    /\ lrun.p.returncode = 126
    /\ lrun.unit \in lrun.collected

\* C20: the dependency sets of the function being synthesized are exactly
\* the file-scope variables its body refers to: used statics are those
\* whose storage class is static, used globals the others; the locals,
\* function-local statics, functions and enumerators the body refers to,
\* and a parameter, are in neither set, even were their USR a key of the
\* file-scope variables.
C20_FileScopeVariablesOnly ==
    (Running /\ is_candidate(cur_fn, cur_file.path)) =>
        /\ used.used_static = {v.usr : v \in UsedStatics}
        /\ used.used_globals = {v.usr : v \in UsedGlobals}
        /\ \A v \in UsedVars :
             classify_var(v) = <<TRUE, v.storage_class = "STATIC">>
        /\ LET body == compound_children(cur_fn)[1]
               param == [LocalVar EXCEPT !.kind = "PARM_DECL", !.spelling = "n",
                                         !.usr = "c:a.c@F@f@n"]
               others == {body.children[i].referenced : i \in 1..4} \cup {param}
           IN  \A r \in others :
                   /\ classify_var(r) = <<FALSE, FALSE>>
                   /\ walk(DeclRef(r), (r.usr :> r) @@ tu_globals) = NoUse

\* C20 witness: the function refers to a static and to a global variable of
\* its file, and to a function-local static that hides the name of a static
C20_Witness ==
    /\ pc = "impl"
    /\ cur_fn.spelling = "f"
    /\ \E v \in UsedStatics : v.spelling = "count"
    /\ UsedGlobals # {}
    /\ \E i \in 1..4 :
         LET r == compound_children(cur_fn)[1].children[i].referenced
         IN  r.kind = "VAR_DECL" /\ r.storage_class = "STATIC" /\ r.spelling = "count"

\* C21: for the function being synthesized, whose body refers to its
\* variables at the top level, inside a nested statement and inside an
\* expression of a loop nested deeper, every file-scope variable referred to
\* is in exactly one of used globals and used statics, the two sets are
\* disjoint, and once F.h and F.c are written each such variable has its
\* declaration on exactly one line of F.c, each of its accessor prototypes
\* on exactly one line of F.h, and at most one getter, one size query and
\* one setter defined in F.c.
C21_EachVariableOnce ==
    (Running /\ is_candidate(cur_fn, cur_file.path)) =>
        /\ used.used_globals \cap used.used_static = {}
        /\ \A v \in UsedVars : v.usr \in used.used_globals \cup used.used_static
        /\ Cardinality(used.used_globals \cup used.used_static) = Cardinality(UsedVars)
        /\ pc \in {"copy", "stub"} =>
             LET f == cur_fn.spelling
                 c == CurSrc[c_name(f)]
                 defs(heads, vname) ==
                     Cardinality({k \in 1..(Len(c) - 1) : c[k] \in heads /\ c[k + 1] = vname})
             IN  /\ \A v \in UsedVars : LineCount(c, DeclLine(v)) = 1
                 /\ \A v \in UsedStatics :
                      /\ \A l \in TableDecls(v) : LineCount(CurSrc[h_name(f)], l) = 1
                      /\ defs({"* get_", " get_"}, v.spelling) = 1
                      /\ defs({"size_t get_"}, v.spelling) <= 1
                      /\ defs({"void set_"}, v.spelling) <= 1

\* C21 witness: F.c was written for a function that refers to two variables,
\* the second of them only below the top level of its body
C21_Witness ==
    /\ pc = "stub"
    /\ Cardinality(UsedVars) = 2
    /\ UsedStatics # {}
    /\ LET body == compound_children(cur_fn)[1]
       IN  Cardinality({i \in DOMAIN body.children :
                           body.children[i].referenced \in UsedVars}) = 1

\* C22: in the F.h and the F.c just written, whatever variables F uses, a
\* used variable whose name sorts before that of another of its kind comes
\* first: all its accessor prototypes in F.h, and its declaration and all
\* its accessor definitions in F.c, precede those of the other.
C22_EmittedInNameOrder ==
    pc \in {"copy", "stub"} =>
        LET f == cur_fn.spelling
            h == CurSrc[h_name(f)]
            c == CurSrc[c_name(f)]
            InC(v) == {find(c, DeclLine(v))} \cup AccessorsAt(c, v)
        IN  /\ \A u, v \in UsedStatics :
                NameBefore(u, v) =>
                    /\ \A i \in AccessorsAt(h, u), j \in AccessorsAt(h, v) : i < j
                    /\ \A i \in InC(u), j \in InC(v) : i < j
            /\ \A u, v \in UsedGlobals :
                NameBefore(u, v) => find(c, DeclLine(u)) < find(c, DeclLine(v))

\* C23: the F.h just written includes <stddef.h> iff some used static is an
\* array, which is when a prototype in it uses size_t, and includes
\* <string.h> iff some used static is an array that is not const and has a
\* known count, which is when it declares an array setter; with no such
\* static it includes neither.  The F.c just written includes both, each
\* once, whatever the function uses.
C23_SupportHeaders ==
    /\ pc \in {"impl", "copy", "stub"} =>
         LET h == CurSrc[h_name(cur_fn.spelling)]
             isArray(v) == v.type.kind \in {"CONSTANTARRAY", "INCOMPLETEARRAY"}
             sized == \E k \in DOMAIN h : h[k] \in {"size_t get_", "* src, size_t n);"}
             copies == \E k \in DOMAIN h : h[k] = "* src, size_t n);"
         IN  /\ LineCount(h, <<"#include <stddef.h>">>)
                  = IF \E v \in UsedStatics : isArray(v) THEN 1 ELSE 0
             /\ LineCount(h, <<"#include <string.h>">>) = IF MutableKnown # {} THEN 1 ELSE 0
             /\ sized <=> LineCount(h, <<"#include <stddef.h>">>) = 1
             /\ copies <=> LineCount(h, <<"#include <string.h>">>) = 1
    /\ pc \in {"copy", "stub"} =>
         LET c == CurSrc[c_name(cur_fn.spelling)]
         IN  /\ LineCount(c, <<"#include <stddef.h>">>) = 1
             /\ LineCount(c, <<"#include <string.h>">>) = 1

\* C23 witness: the function uses a const array and no other static, and
\* F.h and F.c are written: F.h includes <stddef.h> alone
C23_Witness ==
    /\ pc = "stub"
    /\ UsedStatics # {}
    /\ \A v \in UsedStatics : v.type.kind = "CONSTANTARRAY" /\ v.type.const
    /\ LineCount(CurSrc[h_name(cur_fn.spelling)], <<"#include <stddef.h>">>) = 1
    /\ LineCount(CurSrc[h_name(cur_fn.spelling)], <<"#include <string.h>">>) = 0

\* C24: a run that is interrupted, or whose write fails, stops and leaves
\* every package as the writes so far made it; and at the end of any run,
\* whatever the earlier runs and interruptions left behind, a function that
\* the tree defines was populated by the run iff the src/ of its package was
\* missing or had no entry when the run began, and a package whose src/ had
\* an entry then is as it was.
C24_SurvivorsDecide ==
    /\ [][(Running /\ pc' = "idle") => disk' = disk]_vars
    /\ [](pc = "done" =>
            \A p \in Pkgs :
                /\ DefLocs(p) # {} =>
                     ((\E i \in DOMAIN out : out[i] = [kind |-> "OK", fn |-> p])
                        <=> ~SrcNonEmpty(startDisk[p]))
                /\ SrcNonEmpty(startDisk[p]) => disk[p] = startDisk[p])

\* C24 witness: the first run was interrupted after it wrote f.h and before
\* it wrote f.c; the second run skipped f, whose src/ still has no f.c
C24_Witness ==
    /\ pc = "done"
    /\ runs = 2
    /\ edits = 1
    /\ h_name("f") \in DOMAIN startDisk["f"].src.files
    /\ c_name("f") \notin DOMAIN disk["f"].src.files
    /\ \E i \in DOMAIN out : out[i] = [kind |-> "SKIP", fn |-> "f"]

\* C25: when no run is under way, after generator runs and interruptions
\* alone, a package whose src/ has an entry holds src/F.c with the marker
\* in it, and the launcher's splice of a body into it ends well.
C25_NonEmptySrcHasMarker ==
    ~Running =>
        \A p \in Pkgs :
            SrcNonEmpty(disk[p]) =>
                /\ c_name(p) \in DOMAIN disk[p].src.files
                /\ find(disk[p].src.files[c_name(p)], marker) # -1
                /\ \A body \in ExtractedBodies(p) :
                     modify_file_after_marker(disk[p].src, c_name(p), body).exit = "ok"

\* C26: when no run is under way, after generator runs and interruptions
\* alone (every package there is was created by the generator, none existed
\* before), a package whose src/ has an entry holds its stub test/test_F.c.
C26_CreatedPackageHasStub ==
    ~Running =>
        \A p \in Pkgs :
            (disk[p].exists /\ SrcNonEmpty(disk[p])) =>
                /\ disk[p].test.present
                /\ test_name(p) \in DOMAIN disk[p].test.files

\* C27: after a completed population of TEST_F, src/F.h is the header
\* generated for a definition of F, whatever the discovered headers are
\* named, F.h included.
C27_GeneratedHeaderKept ==
    \A p \in Pkgs :
        JustGenerated(p) =>
            /\ h_name(p) \in DOMAIN disk[p].src.files
            /\ \E loc \in DefLocs(p) : disk[p].src.files[h_name(p)] = HeaderTextAt(loc)

\* C28: after a completed population of TEST_F, every discovered header has
\* in src/ the file of its name, holding that header's text with the
\* prototype of F removed, also when another discovered header has the
\* same file name.
C28_EveryHeaderCopied ==
    \A p \in Pkgs :
        JustGenerated(p) =>
            \A i \in DOMAIN headers_all :
                /\ name(headers_all[i].path) \in DOMAIN disk[p].src.files
                /\ disk[p].src.files[name(headers_all[i].path)]
                     = remove_function_proto_from_header(headers_all[i].text, p)

\* C29: the copy of the laid out header just written into the package of f
\* holds every line that is no prototype of f (the declaration of g, the
\* declaration of xf, the macro line, the preprocessor line) as often as
\* the header does, and is the header itself when the header holds no
\* prototype of f.
C29_OtherLinesKept ==
    (pc = "stub" /\ ws.lay # <<>> /\ cur_fn.spelling = "f") =>
        LET text == LayText(ws.lay)
        IN  /\ \A n \in {"other", "suffix", "macro", "define"} :
                 LET l == SubSeq(ProtoLines[n], 1, Len(ProtoLines[n]) - 1)
                 IN  LineCount(LayCopy, l) = LineCount(text, l)
            /\ ~HasProto(text, "f") => LayCopy = text

\* C30: whenever the build check is not running, the template
\* script_dir/CMakeLists.txt is the text it was before the first run and
\* holds the placeholder, and every other CMakeLists.txt the runs wrote is
\* the template with the name of its own directory in place of the
\* placeholder.
C30_TemplateUnchanged ==
    build.pc = "idle" =>
        /\ build.cmake[build.script_dir] = build.template0
        /\ \E i \in DOMAIN build.cmake[build.script_dir] :
              build.cmake[build.script_dir][i] = "projectName"
        /\ \A d \in DOMAIN build.cmake \ {build.script_dir} :
              /\ Len(build.cmake[d]) = Len(build.template0)
              /\ \A i \in DOMAIN build.template0 :
                    build.cmake[d][i] = IF build.template0[i] = "projectName"
                                        THEN name(d) ELSE build.template0[i]

====
